---- MODULE Spec2Model ----
(***************************************************************************)
(* Model of scripts/openproject_cli.py: the request layer's outcomes, the  *)
(* pagination collector, the reference resolvers and the work package      *)
(* mutations of OpenProjectClient.                                         *)
(*                                                                         *)
(* Text is a sequence of one-character strings, so that strip(), lower(),  *)
(* isdigit(), str(int) and the substring test are computed, not assumed.   *)
(* A request that was issued is an entry of `requests`, together with the  *)
(* response the server gave to it.                                         *)
(***************************************************************************)
EXTENDS Integers, Sequences, FiniteSets, TLC

VARIABLES
    pc,          \* position of the running operation: idle, loop, ret, done
    op,          \* the operation that was called
    args,        \* its arguments
    server,      \* the remote server the client talks to
    limit,       \* _collect_collection: limit
    page_size,   \* _collect_collection: page_size
    collected,   \* _collect_collection: collected
    offset,      \* _collect_collection: offset
    requests,    \* the requests issued so far, each with its response
    locals,      \* locals of the calling method while _collect_collection runs
    result,      \* what the operation returned or raised
    files        \* the files of the local file system, each with its content

vars == <<pc, op, args, server, limit, page_size, collected, offset, requests, locals, result, files>>

(***************************************************************************)
(* Values                                                                  *)
(***************************************************************************)
\* An optional value: Absent, or Some(v)
Absent == <<>>

Some(v) == <<v>>

\* OpenProjectError.status_code of an error raised without a response status
NoStatus == 0

\* An element of a JSON list that is not a dict
Junk == [notdict |-> TRUE]

IsDict(e) == "notdict" \notin DOMAIN e

Min(a, b) == IF a < b THEN a ELSE b

Max(a, b) == IF a > b THEN a ELSE b

NoResult == [kind |-> "none"]

NoLocals == [none |-> TRUE]

\* The file system without a file
NoFiles == [path \in {} |-> [title |-> <<>>, decision |-> ""]]

\* OpenProjectError(message, status_code): the message is its fixed text and
\* the values formatted into it
Error(text, detail, status_code) ==
    [kind |-> "error", message |-> [text |-> text, detail |-> detail], status_code |-> status_code]

Ok(value) == [kind |-> "ok", value |-> value]

(***************************************************************************)
(* Program constants                                                       *)
(***************************************************************************)
MAX_PAGE_SIZE == 200

\* get_projects(limit=500)
GetProjectsLimit == 500

\* get_users(limit=500) as called by resolve_user
ResolveUserLimit == 500

(***************************************************************************)
(* Bounds of the model                                                     *)
(***************************************************************************)
\* largest limit passed to _collect_collection directly
MaxLimit == 2

\* most elements an unconstrained server puts in one page
MaxPageLen == 2

\* most items the item-indexed server holds when _collect_collection is called directly
MaxItems == 5

\* largest limit passed to _collect_collection against the item-indexed server
MaxIndexedLimit == 6

(***************************************************************************)
(* Text                                                                    *)
(***************************************************************************)
Digits == <<"0", "1", "2", "3", "4", "5", "6", "7", "8", "9">>

IsDigitChar(c) == \E i \in 1..10 : Digits[i] = c

UpperLetters ==
    <<"A", "B", "C", "D", "E", "F", "G", "H", "I", "J", "K", "L", "M",
      "N", "O", "P", "Q", "R", "S", "T", "U", "V", "W", "X", "Y", "Z">>

LowerLetters ==
    <<"a", "b", "c", "d", "e", "f", "g", "h", "i", "j", "k", "l", "m",
      "n", "o", "p", "q", "r", "s", "t", "u", "v", "w", "x", "y", "z">>

\* str.lower() on one character
LowerChar(c) ==
    IF \E i \in DOMAIN UpperLetters : UpperLetters[i] = c
    THEN LowerLetters[CHOOSE i \in DOMAIN UpperLetters : UpperLetters[i] = c]
    ELSE c

\* The characters of the model in code point order, which is the order of
\* str comparison
CodePoints == <<" ", "-">> \o Digits \o UpperLetters \o <<"_">> \o LowerLetters

CodePoint(c) == CHOOSE i \in DOMAIN CodePoints : CodePoints[i] = c

RECURSIVE StrLess(_, _)
\* a < b for two strings
StrLess(a, b) ==
    IF b = <<>> THEN FALSE
    ELSE IF a = <<>> THEN TRUE
    ELSE IF Head(a) # Head(b) THEN CodePoint(Head(a)) < CodePoint(Head(b))
    ELSE StrLess(Tail(a), Tail(b))

RECURSIVE Sorted(_)
\* sorted(S) for a set of strings
Sorted(S) ==
    IF S = {} THEN <<>>
    ELSE LET least == CHOOSE x \in S : \A y \in S : x = y \/ StrLess(x, y)
         IN <<least>> \o Sorted(S \ {least})

\* str.lower()
Lower(s) == [i \in 1..Len(s) |-> LowerChar(s[i])]

IsSpace(c) == c = " "

RECURSIVE LStrip(_)
LStrip(s) == IF s # <<>> /\ IsSpace(Head(s)) THEN LStrip(Tail(s)) ELSE s

RECURSIVE RStrip(_)
RStrip(s) == IF s # <<>> /\ IsSpace(s[Len(s)]) THEN RStrip(SubSeq(s, 1, Len(s) - 1)) ELSE s

\* str.strip()
Strip(s) == RStrip(LStrip(s))

\* str.isdigit(): non-empty and all digits
IsDigit(s) == s # <<>> /\ \A i \in 1..Len(s) : IsDigitChar(s[i])

RECURSIVE IntToStr(_)
\* str(n) for a natural number
IntToStr(n) == IF n < 10 THEN <<Digits[n + 1]>> ELSE IntToStr(n \div 10) \o <<Digits[(n % 10) + 1]>>

\* `needle in hay` for two strings
Contains(hay, needle) ==
    \E i \in 0..(Len(hay) - Len(needle)) : SubSeq(hay, i + 1, i + Len(needle)) = needle

\* str(d.get(key, "")).strip() for a key holding text or absent (absent is <<>>)
TextField(v) == Strip(v)

\* The characters of s as one string
RECURSIVE Concat(_)
Concat(s) == IF s = <<>> THEN "" ELSE s[1] \o Concat(Tail(s))

\* str(d.get("id", "")).strip() for an id that is a number or absent
IdText(id) == IF id = Absent THEN <<>> ELSE IntToStr(id[1])

(***************************************************************************)
(* Request layer                                                           *)
(***************************************************************************)
\* A response body is Absent (no content) or Some(x): x is a record with a
\* text field for content that is not JSON, Junk for JSON that is not a
\* dict, and any other record for a JSON dict.
IsText(x) == "text" \in DOMAIN x

\* "; ".join(messages)
RECURSIVE JoinMessages(_)
JoinMessages(messages) ==
    IF Len(messages) = 1 THEN Head(messages)
    ELSE Head(messages) \o <<";", " ">> \o JoinMessages(Tail(messages))

\* The value of a key that holds a non-blank str, stripped; <<>> otherwise
MessageOf(x) ==
    IF IsDict(x) /\ "message" \in DOMAIN x /\ x.message # Absent THEN Strip(x.message[1]) ELSE <<>>

\* extract_error_message
extract_error_message(resp) ==
    IF resp.body = Absent THEN <<"No error body returned.">>
    ELSE LET data == resp.body[1] IN
         IF IsText(data)
         THEN (IF Strip(data.text) # <<>> THEN Strip(data.text) ELSE <<"No error body returned.">>)
         ELSE IF IsDict(data) /\ MessageOf(data) # <<>> THEN MessageOf(data)
         ELSE IF IsDict(data) /\ "errors" \in DOMAIN data /\ data.errors # Absent
         THEN LET named == SelectSeq(data.errors[1], LAMBDA err : MessageOf(err) # <<>>)
                  messages == [i \in 1..Len(named) |-> MessageOf(named[i])]
              IN IF messages # <<>> THEN JoinMessages(messages)
                 ELSE <<"Unexpected error format returned by server.">>
         ELSE <<"Unexpected error format returned by server.">>

\* _request: the error raised for a transport failure or for a response
\* outside expected_statuses
RequestErrorBare(method, path, resp) ==
    IF resp.status = NoStatus THEN Error("Network error while calling OpenProject", <<>>, NoStatus)
    ELSE Error("OpenProject API error",
               <<resp.status, method, path, extract_error_message(resp)>>, NoStatus)

RequestError(method, path, resp) ==
    IF resp.status = NoStatus THEN Error("Network error while calling OpenProject", <<>>, NoStatus)
    ELSE IF resp.status \in {401, 403} THEN Error("Authentication failed", <<>>, resp.status)
    ELSE Error("OpenProject API error",
               <<resp.status, method, path, extract_error_message(resp)>>, resp.status)

\* _request: what is returned for a response in expected_statuses: {} for no
\* content and for content that is not JSON, else response.json()
Decoded(resp) ==
    IF resp.body = Absent THEN Absent
    ELSE IF IsText(resp.body[1]) THEN Absent
    ELSE resp.body

\* extract_embedded_elements: the dict items of _embedded.elements
extract_embedded_elements(elements) == SelectSeq(elements, IsDict)

\* A request as the log keeps it: what was sent and the response to it
Request(method, path, payload, resp) ==
    [method |-> method, path |-> path, offset |-> 0, pageSize |-> 0, payload |-> payload, resp |-> resp]

(***************************************************************************)
(* Sequences of requests with their possible outcomes                      *)
(***************************************************************************)
\* One way a piece of code can run: the requests it issued, with the
\* responses it got, and what it returned or raised.
Outcome(reqs, res) == [reqs |-> reqs, res |-> res]

\* self._request(method, path, payload=..., expected_statuses=...), for each
\* response of Resps: the decoded body, or the error _request raises
Call(method, path, payload, expected, Resps) ==
    {Outcome(<<Request(method, path, payload, r)>>,
             IF r.status \in expected THEN Ok(Decoded(r)) ELSE RequestError(method, path, r)) :
        r \in Resps}

Return(value) == {Outcome(<<>>, Ok(value))}

Raise(error) == {Outcome(<<>>, error)}

\* The code that runs after outcome o, with outcomes outs
After(o, outs) == {Outcome(o.reqs \o n.reqs, n.res) : n \in outs}

\* try: v = <outs> / except OpenProjectError as exc: H(exc) / then F(v)
Try(outs, F(_), H(_)) ==
    UNION {After(o, IF o.res.kind = "ok" THEN F(o.res.value) ELSE H(o.res)) : o \in outs}

\* Statement sequencing: F runs on the value of each outcome that returned;
\* an outcome that raised ends there.
Then(outs, F(_)) == Try(outs, F, Raise)

\* payload["_links"]: the href of each relation that is set
NoLinks == [status |-> Absent, priority |-> Absent, assignee |-> Absent, type |-> Absent]

\* The other top-level fields of a payload
NoFields == [subject |-> Absent, description |-> Absent, startDate |-> Absent, dueDate |-> Absent]

\* A JSON request body: lockVersion and comment when given, the relations
\* under _links, and the other top-level fields
PayloadUnguarded(lockVersion, comment, links, fields) ==
    Some([lockVersion |-> Absent, comment |-> comment, links |-> links, fields |-> fields])

Payload(lockVersion, comment, links, fields) ==
    Some([lockVersion |-> lockVersion, comment |-> comment, links |-> links, fields |-> fields])

\* An href the server gives: its path below API_PREFIX
Href(rest) == [prefix |-> "/api/v3", rest |-> rest]

\* to_api_path on an href that starts with API_PREFIX
LinkPath(href) == href.rest

(***************************************************************************)
(* Calling _request directly                                               *)
(***************************************************************************)
\* The bodies a response may carry
ResponseBodies ==
    {Absent,
     Some([text |-> <<" ">>]),
     Some([text |-> <<" ", "n", "o">>]),
     Some(Junk),
     Some([message |-> Some(<<" ", "b", "a", "d", " ">>), errors |-> Absent]),
     Some([message |-> Some(<<" ">>),
           errors |-> Some(<<Junk, [message |-> Some(<<"e", "1">>)], [message |-> Absent],
                             [message |-> Some(<<"e", "2", " ">>)]>>)]),
     Some([message |-> Absent, errors |-> Some(<<Junk>>)]),
     Some([message |-> Absent, errors |-> Absent])}

\* The responses to a request, and the transport failure
RawResponses ==
    {[status |-> st, body |-> b] : st \in {200, 201, 204, 401, 403, 404, 422, 500}, b \in ResponseBodies}
    \cup {[status |-> NoStatus, body |-> Absent]}

RequestCall ==
    /\ pc = "idle"
    /\ \E method \in {"GET", "PATCH"}, expected \in {{200}, {200, 201}} :
         \E o \in Call(method, "/path", Absent, expected, RawResponses) :
            /\ op' = "_request"
            /\ args' = [method |-> method, path |-> "/path", expected_statuses |-> expected]
            /\ requests' = o.reqs
            /\ result' = o.res
    /\ pc' = "done"
    /\ UNCHANGED <<server, limit, page_size, collected, offset, locals>>
    /\ UNCHANGED files

InitRequest ==
    /\ pc = "idle"
    /\ op = "none"
    /\ args = [none |-> TRUE]
    /\ server = [kind |-> "none", items |-> <<>>]
    /\ limit = 0
    /\ page_size = 1
    /\ collected = <<>>
    /\ offset = 1
    /\ requests = <<>>
    /\ locals = NoLocals
    /\ result = NoResult
    /\ files = NoFiles

NextRequest == RequestCall

SpecRequest == InitRequest /\ [][NextRequest]_vars

\* _request returned or raised
RequestDone == op = "_request" /\ pc = "done"

\* The message the server sent: its first non-blank message field, else the
\* non-blank messages of its embedded errors joined, else its non-blank
\* text, else one of the two fixed fallback texts
IsServerMessage(detail, body) ==
    LET data == body[1]
        listed == IF body # Absent /\ ~IsText(data) /\ IsDict(data) /\ data.errors # Absent
                  THEN SelectSeq(data.errors[1],
                                 LAMBDA e : IsDict(e) /\ e.message # Absent /\ Strip(e.message[1]) # <<>>)
                  ELSE <<>>
    IN IF body # Absent /\ ~IsText(data) /\ IsDict(data) /\ data.message # Absent
          /\ Strip(data.message[1]) # <<>>
       THEN detail = Strip(data.message[1])
       ELSE IF listed # <<>>
       THEN detail = JoinMessages([i \in 1..Len(listed) |-> Strip(listed[i].message[1])])
       ELSE IF body # Absent /\ IsText(data) /\ Strip(data.text) # <<>>
       THEN detail = Strip(data.text)
       ELSE detail \in {<<"No error body returned.">>, <<"Unexpected error format returned by server.">>}

\* What the claim says of a failure: a transport failure has no status code;
\* a status outside the expected set is carried by the error, which is the
\* authentication failure for 401 and 403 and otherwise the API error with
\* the server's message
FailureClassified ==
    LET resp == requests[1].resp IN
    IF resp.status = NoStatus
    THEN /\ result.kind = "error"
         /\ result.status_code = NoStatus
         /\ result.message.text = "Network error while calling OpenProject"
    ELSE /\ result.kind = "error"
         /\ result.status_code = resp.status
         /\ IF resp.status \in {401, 403}
            THEN result.message.text = "Authentication failed"
            ELSE /\ result.message.text = "OpenProject API error"
                 /\ result.message.detail[1] = resp.status
                 /\ IsServerMessage(result.message.detail[4], resp.body)

\* C17 as stated: a status in the expected set yields the decoded JSON body,
\* or an empty mapping when the body is absent; any other response yields
\* the classified error.
C17_DecodedOrAbsent ==
    RequestDone =>
        LET resp == requests[1].resp IN
        IF resp.status \in args.expected_statuses
        THEN /\ result.kind = "ok"
             /\ \/ resp.body # Absent /\ ~IsText(resp.body[1]) /\ result.value = resp.body
                \/ resp.body = Absent /\ result.value = Absent
        ELSE FailureClassified

\* C17 (amended): a status in the expected set yields the decoded JSON body,
\* or an empty mapping when the body is absent or is not JSON; any other
\* response yields the classified error.
C17_ResponseClassified ==
    RequestDone =>
        LET resp == requests[1].resp IN
        IF resp.status \in args.expected_statuses
        THEN /\ result.kind = "ok"
             /\ \/ resp.body # Absent /\ ~IsText(resp.body[1]) /\ result.value = resp.body
                \/ resp.body = Absent /\ result.value = Absent
                \/ resp.body # Absent /\ IsText(resp.body[1]) /\ result.value = Absent
        ELSE FailureClassified

\* A 422 whose payload lists two error messages gives the API error that
\* carries 422 and the two messages joined
C17_Witness ==
    /\ RequestDone
    /\ requests[1].resp.status = 422
    /\ result.kind = "error"
    /\ result.status_code = 422
    /\ result.message.detail[4] = <<"e", "1", ";", " ", "e", "2">>

(***************************************************************************)
(* Servers of paged collections                                            *)
(***************************************************************************)
\* A page response: status 200 with elements, count (Absent or Some(n)) and
\* whether _links.nextByOffset is present; or a failure.
PageOk(elements, count, next) ==
    [status |-> 200, elements |-> elements, count |-> count, next |-> next]

PageFail(status) ==
    [status |-> status, elements |-> <<>>, count |-> Absent, next |-> FALSE, body |-> Absent]

SeqsUpTo(S, n) == UNION {[1..k -> S] : k \in 0..n}

\* Every answer a server may give to a page request
AnyPageResponses ==
    {PageOk(e, c, n) : e \in SeqsUpTo({[id |-> 1], Junk}, MaxPageLen),
                       c \in {Absent, Some(-1), Some(0), Some(2)},
                       n \in BOOLEAN}
    \cup {PageFail(s) : s \in {403, 500, NoStatus}}

\* The server whose offset is a 1-based item index: items o..o+s-1, count the
\* number returned, nextByOffset exactly when items remain.
IndexedPage(items, o, s) ==
    LET last == Min(Len(items), o + s - 1)
        page == IF o > Len(items) THEN <<>> ELSE SubSeq(items, o, last)
    IN PageOk(page, Some(Len(page)), o + Len(page) - 1 < Len(items))

\* Every answer the relations endpoints may give to a page request
RelationPageResponses ==
    {PageOk(e, Absent, n) : e \in SeqsUpTo({[id |-> 1]}, 1), n \in BOOLEAN}
    \cup {PageFail(s) : s \in {401, 403, 404, 405, 500, NoStatus}}

PageResponses(srv, o, s) ==
    CASE srv.kind = "indexed" -> {IndexedPage(srv.items, o, s)}
      [] srv.kind = "relations" -> RelationPageResponses
      [] srv.kind = "fail" -> {PageFail(srv.status)}
      [] OTHER -> AnyPageResponses

(***************************************************************************)
(* _collect_collection                                                     *)
(***************************************************************************)
\* page_size from params.pop("pageSize", min(limit, MAX_PAGE_SIZE)), clamped
PageSizeOf(param, lim) ==
    LET raw == IF param = Absent THEN Min(lim, MAX_PAGE_SIZE) ELSE param[1]
    IN Max(1, Min(raw, MAX_PAGE_SIZE))

CountOfElements(resp, elements) == Len(elements)

RequestPageSizeFull(ps, remaining) == ps

KeepNothing(elements, remaining) == <<>>

\* while len(collected) < limit
LoopGuardLate(c, lim) == Len(c) <= lim

LoopGuard(c, lim) == Len(c) < lim

\* request_params["pageSize"] = min(page_size, remaining)
RequestPageSize(ps, remaining) == Min(ps, remaining)

\* elements[:remaining]
Keep(elements, remaining) == SubSeq(elements, 1, Min(Len(elements), remaining))

\* count = int(data.get("count", len(elements)) or len(elements))
CountOf(resp, elements) ==
    IF resp.count = Absent \/ resp.count = Some(0) THEN Len(elements) ELSE resp.count[1]

StopsOnCountOnly(count, resp) == count <= 0

\* if count <= 0: break ... if not has_next: break
Stops(count, resp) == count <= 0 \/ ~resp.next

\* offset += count
NextOffsetByPage(o, count) == o + 1

NextOffset(o, count) == o + count

\* collected[:limit]
Truncate(c, lim) == SubSeq(c, 1, Min(Len(c), lim))

PageRequest(path, o, s, resp) ==
    [method |-> "GET", path |-> path, offset |-> o, pageSize |-> s, payload |-> Absent, resp |-> resp]

\* The path of the collection the running operation reads
CollectionPath ==
    CASE op = "resolve_project" -> "/projects"
      [] op = "resolve_user" -> "/users"
      [] op \in {"update_work_package", "command_update_work_package"} -> "/users"
      [] op = "main" -> (IF args.command = "list-users" THEN "/users" ELSE "/projects")
      [] op = "list_work_package_relations" ->
            (IF locals.fallback THEN "/relations"
             ELSE "/work_packages/" \o ToString(args.work_package_id) \o "/relations")
      [] OTHER -> "/collection"

\* if limit <= 0: return [] ... offset = 1, collected = []
StartCollect(lim, param) ==
    /\ limit' = lim
    /\ page_size' = PageSizeOf(param, Max(lim, 0))
    /\ collected' = <<>>
    /\ offset' = 1
    /\ pc' = IF lim <= 0 THEN "ret" ELSE "loop"

\* One round of the while loop: a page request, its response, and the
\* decision to go on or to stop.
FetchPage ==
    /\ pc = "loop"
    /\ LoopGuard(collected, limit)
    /\ LET remaining == limit - Len(collected)
           size == RequestPageSize(page_size, remaining)
       IN \E resp \in PageResponses(server, offset, size) :
            /\ requests' = Append(requests, PageRequest(CollectionPath, offset, size, resp))
            /\ IF resp.status # 200
               THEN \* _request raises, _collect_collection does not catch
                    /\ pc' = "raise"
                    /\ UNCHANGED <<collected, offset>>
               ELSE LET elements == extract_embedded_elements(resp.elements)
                        count == CountOf(resp, elements)
                    IN IF elements = <<>>
                       THEN /\ pc' = "ret"
                            /\ UNCHANGED <<collected, offset>>
                       ELSE /\ collected' = collected \o Keep(elements, remaining)
                            /\ IF Stops(count, resp)
                               THEN pc' = "ret" /\ UNCHANGED offset
                               ELSE pc' = "loop" /\ offset' = NextOffset(offset, count)
    /\ UNCHANGED <<op, args, server, limit, page_size, locals, result>>
    /\ UNCHANGED files

\* The while condition is false: fall through to the return statement
LoopEnd ==
    /\ pc = "loop"
    /\ ~LoopGuard(collected, limit)
    /\ pc' = "ret"
    /\ UNCHANGED <<op, args, server, limit, page_size, collected, offset, requests, locals, result>>
    /\ UNCHANGED files

\* The error of the last request, which _collect_collection lets through
LastError ==
    LET r == requests[Len(requests)]
    IN RequestError(r.method, r.path, r.resp)

(***************************************************************************)
(* Calling _collect_collection directly                                    *)
(***************************************************************************)
CollectServers ==
    {[kind |-> "any", items |-> <<>>]}
    \cup {[kind |-> "indexed", items |-> [i \in 1..n |-> [id |-> i]]] :
             n \in 0..MaxItems \cup {MAX_PAGE_SIZE + 2}}

PageSizeParams == {Absent, Some(1), Some(2), Some(250)}

\* The limit above MAX_PAGE_SIZE is asked of the largest server, in pages of
\* the largest size
LargeCollection(srv, param) ==
    /\ srv.kind = "indexed"
    /\ Len(srv.items) > MAX_PAGE_SIZE
    /\ param \in {Absent, Some(250)}

CollectCall ==
    /\ pc = "idle"
    /\ \E lim \in 0..(IF server.kind = "indexed" THEN MaxIndexedLimit ELSE MaxLimit)
                   \cup {MAX_PAGE_SIZE + 1},
          param \in PageSizeParams :
         /\ lim > MAX_PAGE_SIZE => LargeCollection(server, param)
         /\ op' = "collect"
         /\ args' = [limit |-> lim, pageSize |-> param]
         /\ StartCollect(lim, param)
         /\ requests' = <<>>
    /\ UNCHANGED <<server, locals, result>>
    /\ UNCHANGED files

CollectReturn ==
    /\ op = "collect"
    /\ pc \in {"ret", "raise"}
    /\ result' = IF pc = "raise" THEN LastError ELSE Ok(Truncate(collected, limit))
    /\ pc' = "done"
    /\ UNCHANGED <<op, args, server, limit, page_size, collected, offset, requests, locals>>
    /\ UNCHANGED files

InitCollect ==
    /\ pc = "idle"
    /\ op = "none"
    /\ args = [none |-> TRUE]
    /\ server \in CollectServers
    /\ limit = 0
    /\ page_size = 1
    /\ collected = <<>>
    /\ offset = 1
    /\ requests = <<>>
    /\ locals = NoLocals
    /\ result = NoResult
    /\ files = NoFiles

NextCollect == CollectCall \/ FetchPage \/ LoopEnd \/ CollectReturn

SpecCollect == InitCollect /\ [][NextCollect]_vars

(***************************************************************************)
(* Claims about _collect_collection                                        *)
(***************************************************************************)
\* C1: _collect_collection returns at most `limit` items, and a page request
\* is issued only while fewer than `limit` items are collected, whatever the
\* responses said about a next page.
C1_LimitRespected ==
    /\ [](op = "collect" /\ pc = "done" /\ result.kind = "ok" => Len(result.value) <= limit)
    /\ [][op = "collect" /\ Len(requests') > Len(requests) => Len(collected) < limit]_vars

\* The limit was reached on a page that still advertised nextByOffset
C1_Witness ==
    /\ op = "collect" /\ pc = "done" /\ server.kind = "any"
    /\ result.kind = "ok"
    /\ limit >= 2
    /\ Len(result.value) = limit
    /\ Len(requests) >= 2
    /\ requests[Len(requests)].resp.next

\* The elements of all page responses, in the order they were received
RECURSIVE Fetched(_)
Fetched(reqs) ==
    IF reqs = <<>> THEN <<>>
    ELSE Fetched(SubSeq(reqs, 1, Len(reqs) - 1)) \o reqs[Len(reqs)].resp.elements

\* C2: against the item-indexed server, _collect_collection returns exactly
\* the first min(limit, N) items in order, and the pages it fetched are
\* exactly those items: none skipped, none fetched twice.
C2_IndexedExact ==
    (op = "collect" /\ pc = "done" /\ server.kind = "indexed") =>
        LET want == SubSeq(server.items, 1, Min(limit, Len(server.items)))
        IN /\ result = Ok(want)
           /\ Fetched(requests) = want

\* Three pages were needed and items were left on the server
C2_Witness ==
    /\ op = "collect" /\ pc = "done" /\ server.kind = "indexed"
    /\ Len(requests) >= 3
    /\ result.kind = "ok"
    /\ Len(result.value) = limit
    /\ limit < Len(server.items)

\* The count of a page response as the client takes it: the count the
\* server reported, or the number of elements it returned when the response
\* has no count or a zero count
Reported(resp) ==
    IF resp.count # Absent /\ resp.count[1] # 0 THEN resp.count[1]
    ELSE Len(SelectSeq(resp.elements, IsDict))

\* C24: the first page request uses offset 1 and every later one the offset
\* of the request before it plus the count reported in its response, the
\* number of returned elements standing in for a missing or zero count.
C24_OffsetAdvancesByCount ==
    op = "collect" =>
        /\ requests # <<>> => requests[1].offset = 1
        /\ \A i \in 2..Len(requests) :
              requests[i].offset = requests[i - 1].offset + Reported(requests[i - 1].resp)

\* The first page held one element and reported a count of two, and the
\* second request was made at offset 3
C24_Witness ==
    /\ op = "collect"
    /\ Len(requests) = 2
    /\ Len(requests[1].resp.elements) = 1
    /\ requests[1].resp.count = Some(2)
    /\ requests[2].offset = 3
    /\ Len(collected) >= 1

\* The page response ends the collection, a reported count of zero counted
\* as a reason to stop
EndsCollection(resp) ==
    \/ resp.status # 200
    \/ SelectSeq(resp.elements, IsDict) = <<>>
    \/ resp.count # Absent /\ resp.count[1] <= 0
    \/ ~resp.next

\* The page response ends the collection: it holds no item, or reports a
\* negative count, or has no nextByOffset link
EndsCollectionNegative(resp) ==
    \/ resp.status # 200
    \/ SelectSeq(resp.elements, IsDict) = <<>>
    \/ resp.count # Absent /\ resp.count[1] < 0
    \/ ~resp.next

\* C25 as stated: another page is requested only when the last response held
\* items, reported no non-positive count and had a nextByOffset link, and
\* fewer than `limit` items are collected; otherwise what was collected is
\* returned.
C25_StopsOnNonPositiveCount ==
    /\ [][(op = "collect" /\ requests # <<>> /\ Len(requests') > Len(requests)) =>
             /\ ~EndsCollection(requests[Len(requests)].resp)
             /\ Len(collected) < limit]_vars
    /\ [](op = "collect" /\ pc = "done" /\ result.kind = "ok" => result.value = collected)

\* C25 (amended): another page is requested only when the last response held
\* items, reported no negative count and had a nextByOffset link, and fewer
\* than `limit` items are collected; otherwise what was collected is
\* returned.
C25_StopsOnEndOfCollection ==
    /\ [][(op = "collect" /\ requests # <<>> /\ Len(requests') > Len(requests)) =>
             /\ ~EndsCollectionNegative(requests[Len(requests)].resp)
             /\ Len(collected) < limit]_vars
    /\ [](op = "collect" /\ pc = "done" /\ result.kind = "ok" => result.value = collected)

\* One item of two was collected when a page without a nextByOffset link
\* came, and the collection returned that item after one request
C25_Witness ==
    /\ op = "collect" /\ pc = "done"
    /\ limit = 2
    /\ Len(requests) = 1
    /\ requests[1].resp.status = 200
    /\ ~requests[1].resp.next
    /\ requests[1].resp.count = Some(2)
    /\ result.kind = "ok"
    /\ Len(result.value) = 1

\* The number of items collected when request i was issued
RECURSIVE CollectedBefore(_)
CollectedBefore(i) ==
    IF i = 1 THEN 0
    ELSE LET before == CollectedBefore(i - 1)
         IN before + Min(Len(SelectSeq(requests[i - 1].resp.elements, IsDict)),
                         limit - before)

\* C26: every page request carries pageSize = min(page_size, remaining), with
\* page_size between 1 and 200 and remaining the limit minus the number of
\* items collected; so the pageSize is between 1 and 200 and at most the
\* number of items still needed.
C26_PageSizeBounded ==
    op = "collect" =>
        /\ page_size >= 1 /\ page_size <= 200
        /\ \A i \in 1..Len(requests) :
              /\ requests[i].pageSize = Min(page_size, limit - CollectedBefore(i))
              /\ requests[i].pageSize >= 1
              /\ requests[i].pageSize <= 200
              /\ requests[i].pageSize <= limit - CollectedBefore(i)

\* With a limit of 201 and a pageSize parameter of 250 the first request
\* asked for 200 items and the second for the one still needed
C26_Witness ==
    /\ op = "collect"
    /\ limit = MAX_PAGE_SIZE + 1
    /\ args.pageSize = Some(250)
    /\ Len(requests) = 2
    /\ requests[1].pageSize = 200
    /\ requests[2].pageSize = 1

\* _collect_collection runs to its end when every request returns
SpecCollectLive == SpecCollect /\ WF_vars(NextCollect)

\* C28: _collect_collection issues at most `limit` page requests and
\* terminates.
C28_Terminates ==
    /\ [](op = "collect" => Len(requests) <= limit)
    /\ <>(pc = "done")

\* Two page requests were needed for two items, and the collection ended
C28_Witness ==
    /\ op = "collect" /\ pc = "done"
    /\ limit = 2
    /\ Len(requests) = 2
    /\ result.kind = "ok"
    /\ Len(result.value) = 2

(***************************************************************************)
(* resolve_project                                                         *)
(***************************************************************************)
\* most projects of interest the server holds (after the filler projects)
MaxProjects == 2

\* target.isdigit() and project_id == target
IdMatch(project, target) == IsDigit(target) /\ IdText(project.id) = target

\* identifier and identifier.lower() == lowered_target
IdentifierMatch(project, target) ==
    LET identifier == TextField(project.identifier)
    IN identifier # <<>> /\ Lower(identifier) = Lower(target)

\* name and name.lower() == lowered_target
NameMatch(project, target) ==
    LET name == TextField(project.name)
    IN name # <<>> /\ Lower(name) = Lower(target)

\* the three tests made on one project of the loop
ProjectMatches(project, target) ==
    IdMatch(project, target) \/ IdentifierMatch(project, target) \/ NameMatch(project, target)

\* The least element of a non-empty set of numbers
Least(S) == CHOOSE i \in S : \A j \in S : i <= j

\* for project in projects: ... return project; raise "Could not resolve project":
\* the first project of the list, in list order, that passes one of the tests
ScanProjects(projects, target) ==
    LET hits == {i \in 1..Len(projects) : ProjectMatches(projects[i], target)}
    IN IF hits = {}
       THEN Error("Could not resolve project. Provide a valid project ID or identifier, or set OPENPROJECT_DEFAULT_PROJECT.", <<>>, NoStatus)
       ELSE Ok(projects[Least(hits)])

\* resolve_project after get_projects() returned
resolve_project_scan(projects, target) ==
    IF projects = <<>> THEN Error("No projects were returned by OpenProject.", <<>>, NoStatus)
    ELSE ScanProjects(projects, target)

ProjectRefs == {<<"1">>, <<"a">>, <<" ", "A">>, <<"b">>, <<" ">>}

ProjectPool ==
    [id : {Some(1), Some(2)},
     identifier : {<<>>, <<"a">>, <<"b">>},
     name : {<<>>, <<"A">>, <<"1">>}]

\* Projects no reference of the model matches
Filler(k) == [i \in 1..k |-> [id |-> Some(1000 + i), identifier |-> <<"x">>, name |-> <<>>]]

\* The item-indexed server with its projects: the projects of interest come
\* last, after none, limit - 1 or limit filler projects.
ProjectServers ==
    {[kind |-> "indexed", items |-> tail] : tail \in SeqsUpTo(ProjectPool, MaxProjects)}
    \cup {[kind |-> "indexed", items |-> Filler(k) \o <<p>>] :
            k \in {GetProjectsLimit - 1, GetProjectsLimit}, p \in ProjectPool}

ResolveProjectCall ==
    /\ pc = "idle"
    /\ \E project_ref \in ProjectRefs :
         /\ op' = "resolve_project"
         /\ args' = [project_ref |-> project_ref]
         /\ IF Strip(project_ref) = <<>>
            THEN /\ result' = Error("Project value is empty.", <<>>, NoStatus)
                 /\ pc' = "done"
                 /\ requests' = <<>>
                 /\ UNCHANGED <<limit, page_size, collected, offset>>
            ELSE /\ StartCollect(GetProjectsLimit, Absent)
                 /\ requests' = <<>>
                 /\ UNCHANGED result
    /\ UNCHANGED <<server, locals>>
    /\ UNCHANGED files

ResolveProjectReturn ==
    /\ op = "resolve_project"
    /\ pc \in {"ret", "raise"}
    /\ result' = IF pc = "raise" THEN LastError
                 ELSE resolve_project_scan(Truncate(collected, limit), Strip(args.project_ref))
    /\ pc' = "done"
    /\ UNCHANGED <<op, args, server, limit, page_size, collected, offset, requests, locals>>
    /\ UNCHANGED files

InitProject ==
    /\ pc = "idle"
    /\ op = "none"
    /\ args = [none |-> TRUE]
    /\ server \in ProjectServers
    /\ limit = 0
    /\ page_size = 1
    /\ collected = <<>>
    /\ offset = 1
    /\ requests = <<>>
    /\ locals = NoLocals
    /\ result = NoResult
    /\ files = NoFiles

NextProject == ResolveProjectCall \/ FetchPage \/ LoopEnd \/ ResolveProjectReturn

SpecProject == InitProject /\ [][NextProject]_vars

\* 1 for a match by id, 2 by identifier, 3 by name, 4 for no match
MatchRank(project, target) ==
    IF IdMatch(project, target) THEN 1
    ELSE IF IdentifierMatch(project, target) THEN 2
    ELSE IF NameMatch(project, target) THEN 3
    ELSE 4

\* C8: the project resolve_project returns has the best match kind (id before
\* identifier before name) among all projects of the list it scanned,
\* whatever their order.
C8_PriorityAcrossList ==
    (op = "resolve_project" /\ pc = "done" /\ result.kind = "ok") =>
        \A i \in 1..Len(collected) :
            MatchRank(result.value, Strip(args.project_ref))
                <= MatchRank(collected[i], Strip(args.project_ref))

\* C9: whenever a project of the server matches the reference, resolve_project
\* succeeds, however many projects the server holds.
C9_FullListScanned ==
    (/\ op = "resolve_project" /\ pc = "done"
     /\ \E i \in 1..Len(server.items) : ProjectMatches(server.items[i], Strip(args.project_ref)))
    => result.kind = "ok"

(***************************************************************************)
(* resolve_user                                                            *)
(***************************************************************************)
\* most users the server holds
MaxUsers == 2

\* " ".join(part for part in parts if part).strip()
RECURSIVE JoinParts(_)
JoinParts(parts) ==
    IF parts = <<>> THEN <<>>
    ELSE IF Head(parts) = <<>> THEN JoinParts(Tail(parts))
    ELSE LET rest == JoinParts(Tail(parts))
         IN IF rest = <<>> THEN Head(parts) ELSE Head(parts) \o <<" ">> \o rest

FullName(user) == Strip(JoinParts(<<TextField(user.firstName), TextField(user.lastName)>>))

\* user_display_name
user_display_name(user) ==
    IF TextField(user.name) # <<>> THEN TextField(user.name)
    ELSE IF FullName(user) # <<>> THEN FullName(user)
    ELSE IF TextField(user.login) # <<>> THEN TextField(user.login)
    ELSE IF user.id # Absent THEN IntToStr(user.id[1])
    ELSE <<"-">>

\* user_identity_keys
user_identity_keys(user) ==
    SelectSeq(<<TextField(user.name), TextField(user.login), TextField(user.firstName),
                TextField(user.lastName), FullName(user)>>, LAMBDA value : value # <<>>)
    \o (IF user.id # Absent THEN <<IntToStr(user.id[1])>> ELSE <<>>)

\* lowered_keys = [key.lower() for key in keys]
LoweredKeys(user) ==
    LET keys == user_identity_keys(user) IN [i \in 1..Len(keys) |-> Lower(keys[i])]

\* lowered_target in lowered_keys
ExactUserMatch(user, lowered_target) ==
    \E i \in 1..Len(LoweredKeys(user)) : LoweredKeys(user)[i] = lowered_target

\* any(lowered_target in key for key in lowered_keys)
PartialUserMatch(user, lowered_target) ==
    \E i \in 1..Len(LoweredKeys(user)) : Contains(LoweredKeys(user)[i], lowered_target)

\* The loop over users: the index of exact_match (the loop breaks there) and
\* of partial_match (the first substring match met before the loop ended).
UserLoop(users, lowered_target) ==
    LET exactHits == {i \in 1..Len(users) : ExactUserMatch(users[i], lowered_target)}
        scanned == IF exactHits = {} THEN Len(users) ELSE Least(exactHits) - 1
        partialHits == {i \in 1..scanned : PartialUserMatch(users[i], lowered_target)}
    IN [exact_match |-> IF exactHits = {} THEN Absent ELSE Some(Least(exactHits)),
        partial_match |-> IF partialHits = {} THEN Absent ELSE Some(Least(partialHits))]

\* selected = exact_match or partial_match
SelectedPartialFirst(exact_match, partial_match) ==
    IF partial_match # Absent THEN partial_match ELSE exact_match

Selected(exact_match, partial_match) ==
    IF exact_match # Absent THEN exact_match ELSE partial_match

\* f"{API_PREFIX}/users/{user_id}"
UserHref(user_id) == [resource |-> "users", id |-> user_id]

\* href of the selected user: its self link, else the link built from its id
HrefOf(user) ==
    IF user.href # Absent THEN user.href
    ELSE IF user.id # Absent THEN Some(UserHref(user.id[1]))
    ELSE Absent

\* The end of resolve_user once a user is selected
ReturnUser(user) ==
    IF HrefOf(user) = Absent THEN Error("Resolved user did not include a self href or id.", <<>>, NoStatus)
    ELSE Ok([name |-> user_display_name(user), href |-> HrefOf(user)[1]])

\* resolve_user after get_users(limit=500) returned
resolve_user_match(users, target) ==
    LET found == UserLoop(users, Lower(target))
        selected == Selected(found.exact_match, found.partial_match)
    IN IF selected = Absent
       THEN Error("Unknown user. Use numeric user ID, login, or exact display name.", <<>>, NoStatus)
       ELSE ReturnUser(users[selected[1]])

RECURSIVE StrToInt(_)
\* int(target) for a string of digits
StrToInt(s) ==
    IF s = <<>> THEN 0
    ELSE 10 * StrToInt(SubSeq(s, 1, Len(s) - 1))
         + (CHOOSE d \in 0..9 : Digits[d + 1] = s[Len(s)])

UserRefs == {<<"a", "b">>, <<" ", "A", "B">>, <<"a", " ", "b">>, <<"b">>, <<"7">>, <<" ">>}

UserPool ==
    {[name |-> n[1], login |-> n[2], firstName |-> f[1], lastName |-> f[2], id |-> i[1], href |-> i[2]] :
        n \in {<< <<>>, <<>> >>, << <<"A", "b">>, <<>> >>, << <<"x", "a", "b">>, <<>> >>,
               << <<>>, <<"a", "b">> >>},
        f \in {<< <<>>, <<>> >>, << <<"a">>, <<"b">> >>},
        i \in {<<Some(7), Absent>>, <<Absent, Absent>>, <<Some(8), Some(UserHref(8))>>}}

\* Users no reference of the model matches
UserFiller(k) ==
    [i \in 1..k |-> [name |-> <<"z">>, login |-> <<>>, firstName |-> <<>>, lastName |-> <<>>,
                     id |-> Some(1000 + i), href |-> Absent]]

\* The item-indexed server with its users (alone, or after as many filler
\* users as resolve_user fetches), or a server that fails every request
UserServers ==
    {[kind |-> "indexed", items |-> users] : users \in SeqsUpTo(UserPool, MaxUsers)}
    \cup {[kind |-> "indexed", items |-> UserFiller(ResolveUserLimit) \o <<u>>] :
            u \in {v \in UserPool : v.login = <<>> /\ v.firstName = <<>>}}
    \cup {[kind |-> "fail", items |-> <<>>, status |-> st] : st \in {403, 404, 500, NoStatus}}

\* The answer to GET /users/{id}
UserResponse(srv, user_id) ==
    IF srv.kind = "fail" THEN [status |-> srv.status, body |-> Absent]
    ELSE LET hits == {i \in 1..Len(srv.items) : srv.items[i].id = Some(user_id)}
         IN IF hits = {} THEN [status |-> 404, body |-> Absent]
            ELSE [status |-> 200, body |-> Some(srv.items[Least(hits)])]

\* target.isdigit(): one GET /users/{user_id}, and the href built from the id
resolve_user_by_id_lenient(srv, target) ==
    LET user_id == StrToInt(target)
    IN Try(Call("GET", "/users/" \o ToString(user_id), Absent, {200}, {UserResponse(srv, user_id)}),
           LAMBDA user : Return([name |-> user_display_name(user[1]), href |-> UserHref(user_id)]),
           LAMBDA exc : Return([name |-> <<"-">>, href |-> UserHref(user_id)]))

resolve_user_by_id(srv, target) ==
    LET user_id == StrToInt(target)
    IN Then(Call("GET", "/users/" \o ToString(user_id), Absent, {200}, {UserResponse(srv, user_id)}),
            LAMBDA user : Return([name |-> user_display_name(user[1]), href |-> UserHref(user_id)]))

\* except OpenProjectError as exc around get_users(limit=500)
UserListingError(exc) ==
    IF exc.status_code = 403
    THEN Error("Cannot resolve assignee by name because user listing is not permitted.", <<>>, NoStatus)
    ELSE exc

ResolveUserCall ==
    /\ pc = "idle"
    /\ \E user_ref \in UserRefs :
         LET target == Strip(user_ref) IN
         /\ op' = "resolve_user"
         /\ args' = [user_ref |-> user_ref]
         /\ IF target = <<>>
            THEN /\ result' = Error("Assignee value is empty.", <<>>, NoStatus)
                 /\ pc' = "done"
                 /\ requests' = <<>>
                 /\ UNCHANGED <<limit, page_size, collected, offset>>
            ELSE IF IsDigit(target)
            THEN /\ \E o \in resolve_user_by_id(server, target) :
                      requests' = o.reqs /\ result' = o.res
                 /\ pc' = "done"
                 /\ UNCHANGED <<limit, page_size, collected, offset>>
            ELSE /\ StartCollect(ResolveUserLimit, Absent)
                 /\ requests' = <<>>
                 /\ UNCHANGED result
    /\ UNCHANGED <<server, locals>>
    /\ UNCHANGED files

ResolveUserReturn ==
    /\ op = "resolve_user"
    /\ pc \in {"ret", "raise"}
    /\ result' = IF pc = "raise" THEN UserListingError(LastError)
                 ELSE resolve_user_match(Truncate(collected, limit), Strip(args.user_ref))
    /\ pc' = "done"
    /\ UNCHANGED <<op, args, server, limit, page_size, collected, offset, requests, locals>>
    /\ UNCHANGED files

InitUser ==
    /\ pc = "idle"
    /\ op = "none"
    /\ args = [none |-> TRUE]
    /\ server \in UserServers
    /\ limit = 0
    /\ page_size = 1
    /\ collected = <<>>
    /\ offset = 1
    /\ requests = <<>>
    /\ locals = NoLocals
    /\ result = NoResult
    /\ files = NoFiles

NextUser == ResolveUserCall \/ FetchPage \/ LoopEnd \/ ResolveUserReturn

SpecUser == InitUser /\ [][NextUser]_vars

\* resolve_user finished matching a non-numeric reference against a fetched list
UserMatchDone ==
    /\ op = "resolve_user" /\ pc = "done"
    /\ Strip(args.user_ref) # <<>> /\ ~IsDigit(Strip(args.user_ref))
    /\ requests # <<>> /\ requests[Len(requests)].resp.status = 200

ExactUsers == {i \in 1..Len(collected) : ExactUserMatch(collected[i], Lower(Strip(args.user_ref)))}

SubstringUsers == {i \in 1..Len(collected) : PartialUserMatch(collected[i], Lower(Strip(args.user_ref)))}

\* name and href as returned for a user
Returned(user) == Ok([name |-> user_display_name(user), href |-> HrefOf(user)[1]])

\* C10 as stated: a user with an exact identity-key match is returned whenever
\* one exists in the fetched list, and otherwise the first user with a
\* substring match is returned.
C10_ExactAlwaysReturned ==
    UserMatchDone =>
        /\ ExactUsers # {} =>
             \E i \in ExactUsers : HrefOf(collected[i]) # Absent /\ result = Returned(collected[i])
        /\ (ExactUsers = {} /\ SubstringUsers # {}) =>
             /\ HrefOf(collected[Least(SubstringUsers)]) # Absent
             /\ result = Returned(collected[Least(SubstringUsers)])

\* C10 (amended): the first user with an exact identity-key match is selected
\* whenever one exists in the fetched list, even after users that match only
\* by substring; otherwise the first user with a substring match is selected;
\* the selected user's name and href are returned, unless it has neither a
\* self href nor an id, and then the 'did not include a self href or id'
\* error is raised.
C10_ExactWins ==
    UserMatchDone =>
        LET pick == IF ExactUsers # {} THEN Least(ExactUsers)
                    ELSE IF SubstringUsers # {} THEN Least(SubstringUsers)
                    ELSE 0
        IN IF pick = 0 THEN result.kind = "error"
           ELSE IF HrefOf(collected[pick]) = Absent
           THEN result = Error("Resolved user did not include a self href or id.", <<>>, NoStatus)
           ELSE result = Returned(collected[pick])

\* The second user matches exactly, the first only by substring, and the
\* second is returned
C10_Witness ==
    /\ UserMatchDone
    /\ Len(collected) = 2
    /\ ExactUsers = {2}
    /\ SubstringUsers = {1, 2}
    /\ result.kind = "ok"
    /\ result = Returned(collected[2])
    /\ HrefOf(collected[1]) # Absent
    /\ Returned(collected[1]) # Returned(collected[2])

\* resolve_user finished for a reference that consists only of digits
NumericUserRef == op = "resolve_user" /\ pc = "done" /\ IsDigit(Strip(args.user_ref))

\* C11: for a reference of digits only, resolve_user issues exactly one
\* request, GET /users/{id}, never the user listing, and returns the href
\* /api/v3/users/{id}; when that request fails, its error is the result.
C11_NumericDirectFetch ==
    /\ (op = "resolve_user" /\ IsDigit(Strip(args.user_ref))) => pc = "done"
    /\ NumericUserRef =>
         LET user_id == StrToInt(Strip(args.user_ref)) IN
         /\ Len(requests) = 1
         /\ requests[1].method = "GET"
         /\ requests[1].path = "/users/" \o ToString(user_id)
         /\ requests[1].path # "/users"
         /\ IF requests[1].resp.status = 200
            THEN result.kind = "ok" /\ result.value.href = [resource |-> "users", id |-> user_id]
            ELSE /\ result.kind = "error"
                 /\ result.status_code = requests[1].resp.status

\* The user with the numeric id exists and its href is returned
C11_Witness ==
    /\ NumericUserRef
    /\ requests[1].resp.status = 200
    /\ result.kind = "ok"
    /\ result.value.href.id = 7

(***************************************************************************)
(* resolve_status and resolve_allowed_transition_status                    *)
(***************************************************************************)
\* A status, type or priority as the server lists it
Named(name, id) == [name |-> name, href |-> Absent, id |-> id]

NamedWithHref(name, id, rest) == [name |-> name, href |-> Some(Href(rest)), id |-> id]

\* the dict items of a list, in order
Dicts(items) == SelectSeq(items, IsDict)

\* names collected in `available` by a loop that found no match
AvailableNames(items) ==
    LET named == SelectSeq(Dicts(items), LAMBDA item : TextField(item.name) # <<>>)
    IN [i \in 1..Len(named) |-> TextField(named[i].name)]

\* sorted(set(available)), which ", ".join turns into the hint
HintAsCollected(available) == available

Hint(available) == Sorted({available[i] : i \in DOMAIN available})

\* name and name.lower() == lowered_target
NameEquals(item, lowered_target) ==
    TextField(item.name) # <<>> /\ Lower(TextField(item.name)) = lowered_target

\* return name, href or f"{API_PREFIX}/<resource>/{item.get('id')}"
NameAndHref(item, resource) ==
    [name |-> TextField(item.name),
     href |-> IF item.href # Absent THEN item.href[1]
              ELSE Href("/" \o resource \o "/" \o ToString(item.id))]

\* The loop `for item in items: ... return name, href`: the first item whose
\* name equals the target, or Absent
FirstNamed(items, lowered_target, resource) ==
    LET hits == {i \in 1..Len(Dicts(items)) : NameEquals(Dicts(items)[i], lowered_target)}
    IN IF hits = {} THEN Absent ELSE Some(NameAndHref(Dicts(items)[Least(hits)], resource))

\* elements of a collection body ({} has none)
Elements(body) == IF body = Absent THEN <<>> ELSE extract_embedded_elements(body[1].elements)

StatusLists ==
    {<<>>,
     <<Named(<<"a">>, 1), NamedWithHref(<<"B">>, 2, "/statuses/2"), Named(<<"a">>, 4)>>,
     <<Named(<<>>, 3)>>}

\* Answers to GET /statuses
StatusesResponses ==
    {[status |-> 200, body |-> Some([elements |-> l])] : l \in StatusLists}
    \cup {[status |-> st, body |-> Absent] : st \in {200, 403, 500}}

\* resolve_status
resolve_status(status_name) ==
    Then(Call("GET", "/statuses", Absent, {200}, StatusesResponses),
         LAMBDA data :
            LET statuses == Elements(data)
                found == FirstNamed(statuses, Lower(Strip(status_name)), "statuses")
            IN IF found # Absent THEN Return(found[1])
               ELSE IF AvailableNames(statuses) # <<>>
               THEN Raise(Error("Unknown status", <<Hint(AvailableNames(statuses))>>, NoStatus))
               ELSE Raise(Error("No statuses were returned by OpenProject.", <<>>, NoStatus)))

\* The form data the client reads: whether _embedded.schema.status is a dict
\* and its _embedded.allowedValues
FormBodies ==
    {[hasStatusSchema |-> FALSE, allowedValues |-> <<>>],
     [hasStatusSchema |-> TRUE, allowedValues |-> <<>>],
     [hasStatusSchema |-> TRUE, allowedValues |-> <<Named(<<"a">>, 1)>>],
     [hasStatusSchema |-> TRUE, allowedValues |-> <<Junk, NamedWithHref(<<"B">>, 2, "/statuses/2")>>],
     [hasStatusSchema |-> TRUE, allowedValues |-> <<Junk, Named(<<>>, 3)>>]}

\* Answers to the form preflight POST
FormResponses ==
    {[status |-> 200, body |-> Some(b)] : b \in FormBodies}
    \cup {[status |-> st, body |-> Absent] : st \in {200, 403, 404, 405, 422, 500, NoStatus}}

\* except OpenProjectError as exc: if exc.status_code in (404, 405, 422)
FormFallbackStatusesWide == {403, 404, 405, 422, 500}

FormFallbackStatuses == {404, 405, 422}

\* if available: raise "... is not an allowed transition ..."
TransitionRefusedNever(allowed_values) == FALSE

TransitionRefused(allowed_values) == AvailableNames(allowed_values) # <<>>

\* resolve_allowed_transition_status
resolve_allowed_transition_status(work_package, status_name) ==
    IF work_package.lockVersion = Absent
    THEN Raise(Error("Work package payload did not include lockVersion.", <<>>, NoStatus))
    ELSE IF work_package.update = Absent
    THEN resolve_status(status_name)
    ELSE Try(Call("POST", LinkPath(work_package.update[1]),
                  Payload(work_package.lockVersion, Absent, NoLinks, NoFields), {200}, FormResponses),
             LAMBDA form_data :
                IF form_data = Absent \/ ~form_data[1].hasStatusSchema
                THEN resolve_status(status_name)
                ELSE IF form_data[1].allowedValues = <<>>
                THEN resolve_status(status_name)
                ELSE LET allowed_values == form_data[1].allowedValues
                         found == FirstNamed(allowed_values, Lower(Strip(status_name)), "statuses")
                     IN IF found # Absent THEN Return(found[1])
                        ELSE IF TransitionRefused(allowed_values)
                        THEN Raise(Error("Status is not an allowed transition for this work package.",
                                         <<Hint(AvailableNames(allowed_values))>>, NoStatus))
                        ELSE resolve_status(status_name),
             LAMBDA exc :
                IF exc.status_code \in FormFallbackStatuses
                THEN resolve_status(status_name)
                ELSE Raise(exc))

(***************************************************************************)
(* Work packages                                                           *)
(***************************************************************************)
\* The id of the work package the operations are called on
WorkPackageId == 5

WorkPackagePath == "/work_packages/" \o ToString(WorkPackageId)

\* to_api_path(update_href) if update_href else f"/work_packages/{id}"
PatchPath(work_package) ==
    IF work_package.updateImmediately # Absent
    THEN LinkPath(work_package.updateImmediately[1])
    ELSE WorkPackagePath

\* The fields of a work package payload the client reads
WorkPackage(lockVersion, update, updateImmediately, addComment, activities, project) ==
    [lockVersion |-> lockVersion, update |-> update, updateImmediately |-> updateImmediately,
     addComment |-> addComment, activities |-> activities, project |-> project]

Optional(v) == {Absent, Some(v)}

\* Answers to GET /work_packages/{id}
WorkPackageResponses(bodies) ==
    {[status |-> 200, body |-> Some(wp)] : wp \in bodies}
    \cup {[status |-> st, body |-> Absent] : st \in {404, NoStatus}}

\* get_work_package
get_work_package(bodies) ==
    Call("GET", WorkPackagePath, Absent, {200}, WorkPackageResponses(bodies))

\* Answers to the PATCH of a work package
PatchResponses ==
    {[status |-> st, body |-> Absent] : st \in {200, 201, 400, 403, 409, 422, NoStatus}}
    \cup {[status |-> st, body |-> Some([message |-> Some(<<"b", "a", "d">>), errors |-> Absent])] :
             st \in {409, 422}}

IsRejectionWide(exc) == exc.status_code \in {400, 409, 422}

\* exc.status_code == 422
IsRejection(exc) == exc.status_code = 422

StatusUpdateWorkPackages ==
    {WorkPackage(l, u, i, Absent, Absent, Absent) :
        l \in Optional(3),
        u \in Optional(Href(WorkPackagePath \o "/form")),
        i \in Optional(Href(WorkPackagePath))}

\* update_work_package_status
update_work_package_status(status_name) ==
    Then(get_work_package(StatusUpdateWorkPackages),
         LAMBDA body :
            LET work_package == body[1] IN
            IF work_package.lockVersion = Absent
            THEN Raise(Error("Work package payload did not include lockVersion.", <<>>, NoStatus))
            ELSE Then(resolve_allowed_transition_status(work_package, status_name),
                      LAMBDA status :
                         Try(Call("PATCH", PatchPath(work_package),
                                  Payload(work_package.lockVersion, Absent,
                                          [NoLinks EXCEPT !.status = Some(status.href)], NoFields),
                                  {200}, PatchResponses),
                             Return,
                             LAMBDA exc :
                                IF IsRejection(exc)
                                THEN Raise(Error("Status update rejected by workflow for work package",
                                                 <<WorkPackageId, exc.message>>, NoStatus))
                                ELSE Raise(exc))))

StatusNameArgs == {<<"A">>, <<" ", "b">>, <<"c">>, <<>>}

UpdateStatusCall ==
    /\ pc = "idle"
    /\ \E status_name \in StatusNameArgs :
         \E o \in update_work_package_status(status_name) :
            /\ op' = "update_work_package_status"
            /\ args' = [status_name |-> Some(status_name)]
            /\ requests' = o.reqs
            /\ result' = o.res
    /\ pc' = "done"
    /\ UNCHANGED <<server, limit, page_size, collected, offset, locals>>
    /\ UNCHANGED files

(***************************************************************************)
(* add_comment                                                             *)
(***************************************************************************)
\* str(add_comment_link.get("method", "post")).upper()
LinkMethod(link) ==
    LET method == IF link.method = Absent THEN "post" ELSE link.method[1]
    IN CASE method = "post" -> "POST"
         [] method = "patch" -> "PATCH"
         [] method = "get" -> "GET"
         [] OTHER -> method

\* _links.addComment as the server may give it
AddCommentLinks ==
    {[href |-> Some(Href(WorkPackagePath \o "/comments")), method |-> Absent],
     [href |-> Some(Href(WorkPackagePath \o "/comments")), method |-> Some("patch")],
     [href |-> Some(Href(WorkPackagePath \o "/comments")), method |-> Some("get")],
     [href |-> Absent, method |-> Some("post")]}

CommentWorkPackages ==
    {WorkPackage(l, Absent, i, c, a, Absent) :
        l \in Optional(3),
        i \in {Absent},
        c \in {Absent} \cup {Some(link) : link \in AddCommentLinks},
        a \in Optional(Href(WorkPackagePath \o "/journal"))}

\* Answers to a request that creates a comment
CommentResponses ==
    {[status |-> st, body |-> Absent] : st \in {200, 201, 400, 403, 404, 405, 415, 422, 500, NoStatus}}

CommentRetryStatusesWide == {201, 400, 404, 405, 415, 422}

\* if exc.status_code not in (400, 404, 405, 415, 422): raise
CommentRetryStatuses == {400, 404, 405, 415, 422}

\* The comment text of the model
CommentText == "note"

\* Third strategy: POST to the activities endpoint
add_comment_activities(work_package) ==
    LET fallback_path == IF work_package.activities # Absent
                         THEN LinkPath(work_package.activities[1])
                         ELSE WorkPackagePath \o "/activities"
    IN Try(Call("POST", fallback_path, Payload(Absent, Some(CommentText), NoLinks, NoFields),
                {200, 201}, CommentResponses),
           Return,
           LAMBDA fallback_error : Raise(Error("Unable to add comment.", <<>>, NoStatus)))

\* Second strategy: PATCH with lockVersion and an inline comment
add_comment_patch(work_package) ==
    IF work_package.lockVersion = Absent THEN add_comment_activities(work_package)
    ELSE Try(Call("PATCH", PatchPath(work_package),
                  Payload(work_package.lockVersion, Some(CommentText), NoLinks, NoFields),
                  {200}, CommentResponses),
             Return,
             LAMBDA patch_error :
                IF patch_error.status_code \notin CommentRetryStatuses THEN Raise(patch_error)
                ELSE add_comment_activities(work_package))

\* First strategy: the addComment link
add_comment_link(work_package) ==
    IF /\ work_package.addComment # Absent
       /\ work_package.addComment[1].href # Absent
       /\ LinkMethod(work_package.addComment[1]) \in {"POST", "PATCH"}
    THEN Try(Call(LinkMethod(work_package.addComment[1]),
                  LinkPath(work_package.addComment[1].href[1]),
                  Payload(Absent, Some(CommentText), NoLinks, NoFields),
                  {200, 201}, CommentResponses),
             Return,
             LAMBDA exc :
                IF exc.status_code \notin CommentRetryStatuses THEN Raise(exc)
                ELSE add_comment_patch(work_package))
    ELSE add_comment_patch(work_package)

\* add_comment
add_comment ==
    Then(get_work_package(CommentWorkPackages), LAMBDA body : add_comment_link(body[1]))

AddCommentCall ==
    /\ pc = "idle"
    /\ \E o \in add_comment :
         /\ op' = "add_comment"
         /\ args' = [comment |-> CommentText]
         /\ requests' = o.reqs
         /\ result' = o.res
    /\ pc' = "done"
    /\ UNCHANGED <<server, limit, page_size, collected, offset, locals>>
    /\ UNCHANGED files

(***************************************************************************)
(* get_types and resolve_type                                              *)
(***************************************************************************)
\* endpoints: the project-scoped endpoint when project_id is given, then /types
ProjectTypesPath(project_id) == "/projects/" \o ToString(project_id) \o "/types"

TypeEndpoints(project_id) ==
    (IF project_id # Absent THEN <<ProjectTypesPath(project_id[1])>> ELSE <<>>) \o <<"/types">>

\* endpoint.startswith("/projects/")
IsProjectEndpoint(endpoint, project_id) ==
    project_id # Absent /\ endpoint = ProjectTypesPath(project_id[1])

TypeLists ==
    {<<>>,
     <<Named(<<"T">>, 1)>>,
     <<Named(<<"T">>, 1), NamedWithHref(<<"B">>, 2, "/types/2")>>,
     <<Junk, Named(<<>>, 3)>>}

\* Answers to GET /projects/{id}/types and to GET /types
TypesResponses ==
    {[status |-> 200, body |-> Some([elements |-> l])] : l \in TypeLists}
    \cup {[status |-> st, body |-> Absent] : st \in {403, 404, 405, NoStatus}}

RECURSIVE get_types_loop(_, _)
\* for endpoint in endpoints: ... return elements; return []
get_types_loop(endpoints, project_id) ==
    IF endpoints = <<>> THEN Return(<<>>)
    ELSE Try(Call("GET", Head(endpoints), Absent, {200}, TypesResponses),
             LAMBDA data :
                IF Elements(data) # <<>> THEN Return(Elements(data))
                ELSE get_types_loop(Tail(endpoints), project_id),
             LAMBDA exc :
                IF IsProjectEndpoint(Head(endpoints), project_id) /\ exc.status_code \in {404, 405}
                THEN get_types_loop(Tail(endpoints), project_id)
                ELSE Raise(exc))

\* get_types
get_types(project_id) == get_types_loop(TypeEndpoints(project_id), project_id)

RECURSIVE resolve_type_loop(_, _, _)
\* for endpoint in endpoints: ... return name, href; then the two errors
resolve_type_loop(endpoints, lowered_target, available) ==
    IF endpoints = <<>>
    THEN IF available # <<>>
         THEN Raise(Error("Unknown type", <<Hint(available)>>, NoStatus))
         ELSE Raise(Error("Could not resolve type list from OpenProject. Check permissions for reading types.",
                          <<>>, NoStatus))
    ELSE Try(Call("GET", Head(endpoints), Absent, {200}, TypesResponses),
             LAMBDA data :
                LET found == FirstNamed(Elements(data), lowered_target, "types")
                IN IF found # Absent THEN Return(found[1])
                   ELSE resolve_type_loop(Tail(endpoints), lowered_target,
                                          available \o AvailableNames(Elements(data))),
             LAMBDA exc :
                IF exc.status_code \in {404, 405}
                THEN resolve_type_loop(Tail(endpoints), lowered_target, available)
                ELSE Raise(exc))

\* resolve_type
resolve_type(project_id, type_name) ==
    resolve_type_loop(TypeEndpoints(project_id), Lower(Strip(type_name)), <<>>)

TypeNameArgs == {<<"t">>, <<" ", "B">>, <<"x">>}

ProjectIdArgs == {Absent, Some(1)}

ResolveTypeCall ==
    /\ pc = "idle"
    /\ \E project_id \in ProjectIdArgs, type_name \in TypeNameArgs :
         \E o \in resolve_type(project_id, type_name) :
            /\ op' = "resolve_type"
            /\ args' = [project_id |-> project_id, type_name |-> Some(type_name)]
            /\ requests' = o.reqs
            /\ result' = o.res
    /\ pc' = "done"
    /\ UNCHANGED <<server, limit, page_size, collected, offset, locals>>
    /\ UNCHANGED files

GetTypesCall ==
    /\ pc = "idle"
    /\ \E project_id \in ProjectIdArgs :
         \E o \in get_types(project_id) :
            /\ op' = "get_types"
            /\ args' = [project_id |-> project_id, type_name |-> Absent]
            /\ requests' = o.reqs
            /\ result' = o.res
    /\ pc' = "done"
    /\ UNCHANGED <<server, limit, page_size, collected, offset, locals>>
    /\ UNCHANGED files

InitType ==
    /\ pc = "idle"
    /\ op = "none"
    /\ args = [none |-> TRUE]
    /\ server = [kind |-> "none", items |-> <<>>]
    /\ limit = 0
    /\ page_size = 1
    /\ collected = <<>>
    /\ offset = 1
    /\ requests = <<>>
    /\ locals = NoLocals
    /\ result = NoResult
    /\ files = NoFiles

NextType == ResolveTypeCall \/ GetTypesCall

SpecType == InitType /\ [][NextType]_vars

(***************************************************************************)
(* update_work_package                                                     *)
(***************************************************************************)
\* An href as text: the prefix, the resource segment, then one character per
\* element
ProjectHref(id) == <<"/api/v3", "/projects/">> \o id

\* The digits an href ends with
RECURSIVE TrailingDigits(_)
TrailingDigits(href) ==
    IF href # <<>> /\ IsDigitChar(href[Len(href)])
    THEN TrailingDigits(SubSeq(href, 1, Len(href) - 1)) \o <<href[Len(href)]>>
    ELSE <<>>

\* extract_numeric_id_from_href: re.search(rf"/{resource}/(\d+)$", href)
extract_numeric_id_from_href(href, resource) ==
    IF href = Absent THEN Absent
    ELSE LET digits == TrailingDigits(href[1])
             before == Len(href[1]) - Len(digits)
         IN IF digits # <<>> /\ before >= 1 /\ href[1][before] = "/" \o resource \o "/"
            THEN Some(StrToInt(digits))
            ELSE Absent

PriorityLists ==
    {<<>>,
     <<Named(<<"A">>, 1)>>,
     <<Named(<<"b">>, 2), Named(<<"B">>, 3), Named(<<"b">>, 4)>>}

\* Answers to GET /priorities
PrioritiesResponses ==
    {[status |-> 200, body |-> Some([elements |-> l])] : l \in PriorityLists}
    \cup {[status |-> st, body |-> Absent] : st \in {403}}

\* get_priorities
get_priorities ==
    Then(Call("GET", "/priorities", Absent, {200}, PrioritiesResponses),
         LAMBDA data : Return(Elements(data)))

\* resolve_priority
resolve_priority(priority_name) ==
    Then(get_priorities,
         LAMBDA priorities :
            LET found == FirstNamed(priorities, Lower(Strip(priority_name)), "priorities")
            IN IF found # Absent THEN Return(found[1])
               ELSE IF AvailableNames(priorities) # <<>>
               THEN Raise(Error("Unknown priority", <<Hint(AvailableNames(priorities))>>, NoStatus))
               ELSE Raise(Error("No priorities were returned by OpenProject.", <<>>, NoStatus)))

TruthyNever(value) == FALSE

\* `if status_name:` and the like: given and not empty
Truthy(value) == value # Absent /\ value[1] # <<>>

\* The href of a reference that is given, resolved by Resolver; Absent for a
\* reference that is not given
LinkUpdate(value, Resolver(_)) ==
    IF Truthy(value)
    THEN Then(Resolver(value[1]), LAMBDA resolved : Return(Some(resolved.href)))
    ELSE Return(Absent)

UpdateWorkPackages ==
    {WorkPackage(Absent, Absent, Absent, Absent, Absent, Absent)}
    \cup {WorkPackage(Some(3), u, ip[1], Absent, Absent, ip[2]) :
            u \in Optional(Href(WorkPackagePath \o "/form")),
            ip \in {<<Absent, Absent>>,
                    <<Some(Href(WorkPackagePath)), Some(ProjectHref(<<"1">>))>>,
                    <<Absent, Some(ProjectHref(<<"d">>))>>}}

\* update_work_package up to the resolution of the assignee: the work
\* package, the payload fields and the status and priority links
update_work_package_begin(a) ==
    Then(get_work_package(UpdateWorkPackages),
         LAMBDA body :
            LET work_package == body[1]
                fields == [subject |-> a.subject,
                           description |-> IF a.description # Absent
                                           THEN Some([raw |-> a.description[1]]) ELSE Absent,
                           startDate |-> a.start_date,
                           dueDate |-> a.due_date]
            IN IF work_package.lockVersion = Absent
               THEN Raise(Error("Work package payload did not include lockVersion.", <<>>, NoStatus))
               ELSE Then(LinkUpdate(a.status_name,
                                    LAMBDA name : resolve_allowed_transition_status(work_package, name)),
                         LAMBDA status :
                            Then(LinkUpdate(a.priority_name, resolve_priority),
                                 LAMBDA priority :
                                    Return([work_package |-> work_package,
                                            fields |-> fields,
                                            links |-> [NoLinks EXCEPT !.status = status,
                                                                      !.priority = priority]]))))

NothingToUpdateNever(fields, links) == FALSE

\* len(payload) <= 1: the payload holds the lockVersion only
NothingToUpdate(fields, links) == fields = NoFields /\ links = NoLinks

\* update_work_package from the resolution of the type to the PATCH
update_work_package_end(a, work_package, fields, link_updates) ==
    Then(LinkUpdate(a.type_name,
                    LAMBDA name :
                       resolve_type(extract_numeric_id_from_href(work_package.project, "projects"), name)),
         LAMBDA type :
            LET links == [link_updates EXCEPT !.type = type]
            IN IF NothingToUpdate(fields, links)
               THEN Raise(Error("No fields provided to update.", <<>>, NoStatus))
               ELSE Try(Call("PATCH", PatchPath(work_package),
                             Payload(work_package.lockVersion, Absent, links, fields),
                             {200}, PatchResponses),
                        Return,
                        LAMBDA exc :
                           IF IsRejection(exc)
                           THEN Raise(Error("Work package update rejected",
                                            <<WorkPackageId, exc.message>>, NoStatus))
                           ELSE Raise(exc)))

\* link_updates["assignee"] = {"href": assignee_href}, then the rest
update_work_package_assigned(a, state, assignee) ==
    update_work_package_end(a, state.work_package, state.fields,
                            [state.links EXCEPT !.assignee = assignee])

NoArgs ==
    [subject |-> Absent, description |-> Absent, start_date |-> Absent, due_date |-> Absent,
     status_name |-> Absent, priority_name |-> Absent, assignee_ref |-> Absent, type_name |-> Absent]

UpdateArgs ==
    {NoArgs,
     [NoArgs EXCEPT !.subject = Some("s")],
     [NoArgs EXCEPT !.description = Some("d"), !.start_date = Some("2026-01-01"),
                    !.due_date = Some("2026-01-02")],
     [NoArgs EXCEPT !.status_name = Some(<<"A">>)],
     [NoArgs EXCEPT !.status_name = Some(<<>>)],
     [NoArgs EXCEPT !.priority_name = Some(<<"a">>)],
     [NoArgs EXCEPT !.assignee_ref = Some(<<"7">>)],
     [NoArgs EXCEPT !.assignee_ref = Some(<<"a", "b">>)],
     [NoArgs EXCEPT !.assignee_ref = Some(<<" ">>)],
     [NoArgs EXCEPT !.type_name = Some(<<"t">>)],
     [NoArgs EXCEPT !.subject = Some("s"), !.status_name = Some(<<"A">>),
                    !.priority_name = Some(<<"a">>), !.assignee_ref = Some(<<"7">>),
                    !.type_name = Some(<<"B">>)],
     [NoArgs EXCEPT !.status_name = Some(<<"A">>), !.assignee_ref = Some(<<"a", "b">>),
                    !.type_name = Some(<<"t">>)]}

\* The users the server holds, or its refusal to list them
AssigneeServers ==
    {[kind |-> "indexed", items |-> users] :
        users \in {<<>>,
                   <<[name |-> <<"A", "b">>, login |-> <<>>, firstName |-> <<>>,
                      lastName |-> <<>>, id |-> Some(7), href |-> Absent]>>,
                   UserFiller(ResolveUserLimit + 1)}}
    \cup {[kind |-> "fail", items |-> <<>>, status |-> st] : st \in {403, 500}}

\* The operation ends with outcome o
Finish(o) ==
    /\ requests' = o.reqs
    /\ result' = o.res
    /\ pc' = "done"
    /\ UNCHANGED <<limit, page_size, collected, offset, locals>>

\* update_work_package, up to its return or up to the first page request of
\* get_users(limit=500) in resolve_user
update_work_package_run(a) ==
    \E o \in update_work_package_begin(a) :
       IF o.res.kind = "error" THEN Finish(o)
       ELSE IF ~Truthy(a.assignee_ref)
       THEN \E n \in After(o, update_work_package_assigned(a, o.res.value, Absent)) : Finish(n)
       ELSE IF Strip(a.assignee_ref[1]) = <<>>
       THEN \E n \in After(o, Raise(Error("Assignee value is empty.", <<>>, NoStatus))) : Finish(n)
       ELSE IF IsDigit(Strip(a.assignee_ref[1]))
       THEN \E n \in After(o, Then(resolve_user_by_id(server, Strip(a.assignee_ref[1])),
                                   LAMBDA user :
                                      update_work_package_assigned(a, o.res.value, Some(user.href)))) :
               Finish(n)
       ELSE /\ StartCollect(ResolveUserLimit, Absent)
            /\ requests' = o.reqs
            /\ locals' = o.res.value
            /\ UNCHANGED result

UpdateCall ==
    /\ pc = "idle"
    /\ \E a \in UpdateArgs :
         /\ op' = "update_work_package"
         /\ args' = a
         /\ update_work_package_run(a)
    /\ UNCHANGED server
    /\ UNCHANGED files

\* resolve_user once get_users returned or raised, and the rest of
\* update_work_package
UpdateReturn ==
    /\ op \in {"update_work_package", "command_update_work_package"}
    /\ pc \in {"ret", "raise"}
    /\ LET user == IF pc = "raise" THEN UserListingError(LastError)
                   ELSE resolve_user_match(Truncate(collected, limit), Strip(args.assignee_ref[1]))
       IN \E n \in (IF user.kind = "error" THEN Raise(user)
                    ELSE update_work_package_assigned(args, locals, Some(user.value.href))) :
             /\ requests' = requests \o n.reqs
             /\ result' = n.res
    /\ pc' = "done"
    /\ UNCHANGED <<op, args, server, limit, page_size, collected, offset, locals>>
    /\ UNCHANGED files

(***************************************************************************)
(* Constructing the client                                                 *)
(***************************************************************************)
API_PREFIX == "/api/v3"

\* str.rstrip("/")
RECURSIVE RStripSlash(_)
RStripSlash(s) == IF s # <<>> /\ s[Len(s)] = "/" THEN RStripSlash(SubSeq(s, 1, Len(s) - 1)) ELSE s

\* base_url.strip().rstrip("/"), without a trailing API_PREFIX
CleanedBaseUrl(base_url) ==
    LET cleaned == RStripSlash(Strip(base_url))
    IN IF cleaned # <<>> /\ cleaned[Len(cleaned)] = API_PREFIX
       THEN SubSeq(cleaned, 1, Len(cleaned) - 1)
       ELSE cleaned

TokenMode == <<"t", "o", "k", "e", "n">>

BasicMode == <<"b", "a", "s", "i", "c">>

ApiKeyUser == <<"a", "p", "i", "k", "e", "y">>

Client(base_url, username, password) == [base_url |-> base_url, auth |-> <<username, password>>]

OpenProjectClient_init_open(base_url, auth_mode, api_token, username, password) ==
    LET mode == IF auth_mode # <<>> THEN Lower(Strip(auth_mode)) ELSE TokenMode
        given(v) == IF v = Absent THEN <<>> ELSE v[1]
    IN IF CleanedBaseUrl(base_url) = <<>> THEN Error("OPENPROJECT_BASE_URL is required.", <<>>, NoStatus)
       ELSE IF mode = BasicMode THEN Ok(Client(CleanedBaseUrl(base_url), given(username), given(password)))
       ELSE Ok(Client(CleanedBaseUrl(base_url), ApiKeyUser, given(api_token)))

\* OpenProjectClient.__init__
OpenProjectClient_init(base_url, auth_mode, api_token, username, password) ==
    LET mode == IF auth_mode # <<>> THEN Lower(Strip(auth_mode)) ELSE TokenMode
    IN IF CleanedBaseUrl(base_url) = <<>> THEN Error("OPENPROJECT_BASE_URL is required.", <<>>, NoStatus)
       ELSE IF mode = TokenMode
       THEN (IF ~Truthy(api_token)
             THEN Error("OPENPROJECT_API_TOKEN is required for token authentication.", <<>>, NoStatus)
             ELSE Ok(Client(CleanedBaseUrl(base_url), ApiKeyUser, api_token[1])))
       ELSE IF mode = BasicMode
       THEN (IF ~Truthy(username) \/ ~Truthy(password)
             THEN Error("OPENPROJECT_USERNAME and OPENPROJECT_PASSWORD are required for basic auth mode.",
                        <<>>, NoStatus)
             ELSE Ok(Client(CleanedBaseUrl(base_url), username[1], password[1])))
       ELSE Error("Unsupported auth mode", <<auth_mode>>, NoStatus)

\* os.getenv(name, default).strip()
Getenv(value, default) == IF value = Absent THEN Strip(default) ELSE Strip(value[1])

\* build_client_from_env
build_client_from_env(env) ==
    IF ~env.requests_installed
    THEN Error("Missing dependency 'requests'. Install requirements.txt before using API commands.",
               <<>>, NoStatus)
    ELSE LET base_url == Getenv(env.OPENPROJECT_BASE_URL, <<>>)
             auth_mode == Lower(Getenv(env.OPENPROJECT_AUTH_MODE, TokenMode))
         IN IF auth_mode = BasicMode
            THEN OpenProjectClient_init(base_url, BasicMode, Absent,
                                        Some(Getenv(env.OPENPROJECT_USERNAME, <<>>)),
                                        Some(Getenv(env.OPENPROJECT_PASSWORD, <<>>)))
            ELSE OpenProjectClient_init(base_url, TokenMode,
                                        Some(Getenv(env.OPENPROJECT_API_TOKEN, <<>>)), Absent, Absent)

BaseUrlArgs == {<<>>, <<" ">>, <<"/">>, <<API_PREFIX>>, <<"h">>, <<" ", "h", "/", API_PREFIX, "/", " ">>}

AuthModeArgs ==
    {<<>>, TokenMode, <<" ", "T", "O", "K", "E", "N">>, BasicMode, <<"B", "a", "s", "i", "c", " ">>,
     <<"o", "a", "u", "t", "h">>}

Environments ==
    [requests_installed : BOOLEAN,
     OPENPROJECT_BASE_URL : {Absent, Some(<<" ">>), Some(<<"h", "/">>)},
     OPENPROJECT_AUTH_MODE : {Absent, Some(<<" ", "B", "a", "s", "i", "c">>), Some(TokenMode),
                              Some(<<"o", "a", "u", "t", "h">>)},
     OPENPROJECT_API_TOKEN : {Absent, Some(<<" ">>), Some(<<"k">>)},
     OPENPROJECT_USERNAME : {Absent, Some(<<"u">>)},
     OPENPROJECT_PASSWORD : {Absent, Some(<<"p">>)}]

\* The client is built, or its construction raised
Built(o) ==
    /\ requests' = <<>>
    /\ result' = o
    /\ locals' = IF o.kind = "ok" THEN o.value ELSE NoLocals
    /\ pc' = IF o.kind = "ok" THEN "built" ELSE "done"
    /\ UNCHANGED <<server, limit, page_size, collected, offset>>

ConstructCall ==
    /\ pc = "idle"
    /\ \E base_url \in BaseUrlArgs, auth_mode \in AuthModeArgs,
          api_token \in {Absent, Some(<<>>), Some(<<"k">>)},
          username \in {Absent, Some(<<"u">>)},
          password \in {Absent, Some(<<>>), Some(<<"p">>)} :
         /\ op' = "OpenProjectClient"
         /\ args' = [base_url |-> base_url, auth_mode |-> auth_mode, api_token |-> api_token,
                     username |-> username, password |-> password]
         /\ Built(OpenProjectClient_init(base_url, auth_mode, api_token, username, password))
    /\ UNCHANGED files

BuildFromEnvCall ==
    /\ pc = "idle"
    /\ \E env \in Environments :
         /\ op' = "build_client_from_env"
         /\ args' = env
         /\ Built(build_client_from_env(env))
    /\ UNCHANGED files

\* A request of the built client, sent with the credentials of its session
ClientRequest ==
    /\ pc = "built"
    /\ \E o \in Call("GET", "/path", Absent, {200},
                     {[status |-> st, body |-> Absent] : st \in {200, 401, NoStatus}}) :
         /\ requests' = o.reqs
         /\ result' = o.res
    /\ pc' = "done"
    /\ UNCHANGED <<op, args, server, limit, page_size, collected, offset, locals>>
    /\ UNCHANGED files

NextClient == ConstructCall \/ BuildFromEnvCall \/ ClientRequest

SpecClient == InitRequest /\ [][NextClient]_vars

\* The constructor was given no usable credentials: an empty base URL, token
\* mode without a token, basic mode without a username or without a
\* password, or a mode that is neither
Unusable ==
    LET mode == IF args.auth_mode = <<>> THEN TokenMode ELSE Lower(Strip(args.auth_mode))
        none(v) == v = Absent \/ v[1] = <<>>
    IN \/ CleanedBaseUrl(args.base_url) = <<>>
       \/ mode = TokenMode /\ none(args.api_token)
       \/ mode = BasicMode /\ (none(args.username) \/ none(args.password))
       \/ mode \notin {TokenMode, BasicMode}

\* C16: constructing the client without usable credentials raises an error
\* and no request is issued; a request is only ever sent by a client whose
\* session holds a non-empty username and password.
C16_NoRequestWithoutCredentials ==
    /\ (op = "OpenProjectClient" /\ Unusable) =>
          /\ result.kind = "error"
          /\ result.status_code = NoStatus
          /\ requests = <<>>
          /\ pc = "done"
    /\ (op \in {"OpenProjectClient", "build_client_from_env"} /\ requests # <<>>) =>
          /\ locals # NoLocals
          /\ locals.auth[1] # <<>>
          /\ locals.auth[2] # <<>>

\* Basic mode was asked for with a username and an empty password, and the
\* construction raised without a request
C16_Witness ==
    /\ op = "OpenProjectClient"
    /\ Lower(Strip(args.auth_mode)) = BasicMode
    /\ args.username = Some(<<"u">>)
    /\ args.password = Some(<<>>)
    /\ CleanedBaseUrl(args.base_url) = <<"h">>
    /\ result.kind = "error"
    /\ requests = <<>>
    /\ pc = "done"

(***************************************************************************)
(* command_update_work_package                                             *)
(***************************************************************************)
\* The positions of the hyphens of s
Hyphens(s) == {i \in 1..Len(s) : s[i] = "-"}

\* %Y: four digits
YearField(y) == Len(y) = 4 /\ IsDigit(y)

\* %m: 1[0-2]|0[1-9]|[1-9]
MonthField(m) ==
    /\ IsDigit(m)
    /\ Len(m) \in {1, 2}
    /\ StrToInt(m) \in 1..12

\* %d: 3[01]|[12]\d|0[1-9]|[1-9]| [1-9]
DayField(d) ==
    \/ /\ IsDigit(d)
       /\ Len(d) \in {1, 2}
       /\ StrToInt(d) \in 1..31
    \/ /\ Len(d) = 2
       /\ d[1] = " "
       /\ IsDigitChar(d[2]) /\ d[2] # "0"

\* The number a field of digits, with blanks before them, stands for
FieldValue(f) == StrToInt(SelectSeq(f, IsDigitChar))

\* The number of days of the month of the year
DaysInMonth(year, month) ==
    IF month = 2
    THEN (IF year % 4 = 0 /\ (year % 100 # 0 \/ year % 400 = 0) THEN 29 ELSE 28)
    ELSE IF month \in {4, 6, 9, 11} THEN 30 ELSE 31

\* datetime.strptime(normalized_value, "%Y-%m-%d") returns
Strptime(s) ==
    /\ Cardinality(Hyphens(s)) = 2
    /\ LET first == Least(Hyphens(s))
           second == Least(Hyphens(s) \ {first})
           y == SubSeq(s, 1, first - 1)
           m == SubSeq(s, first + 1, second - 1)
           d == SubSeq(s, second + 1, Len(s))
       IN /\ YearField(y) /\ MonthField(m) /\ DayField(d)
          /\ FieldValue(y) >= 1
          /\ FieldValue(d) <= DaysInMonth(FieldValue(y), FieldValue(m))

\* ensure_iso_date: the stripped value when strptime takes it
ensure_iso_date(value, arg_name) ==
    IF Strptime(Strip(value)) THEN Ok(Strip(value))
    ELSE Error("must be in YYYY-MM-DD format.", <<arg_name>>, NoStatus)

\* ensure_iso_date(value, arg_name) if value else None
DateArg(value, arg_name) ==
    IF Truthy(value) THEN ensure_iso_date(value[1], arg_name) ELSE Ok(<<>>)

\* any(value is not None for value in (...))
AnyFieldGiven(a) ==
    \/ a.subject # Absent \/ a.description # Absent \/ a.status_name # Absent
    \/ a.assignee_ref # Absent \/ a.priority_name # Absent \/ a.type_name # Absent
    \/ a.start_date # Absent \/ a.due_date # Absent

CommandArgs ==
    {NoArgs,
     [NoArgs EXCEPT !.start_date = Some(<<>>)],
     [NoArgs EXCEPT !.start_date = Some(<<" ", "2", "0", "2", "6", "-", "0", "1", "-", "0", "1">>)],
     [NoArgs EXCEPT !.due_date = Some(<<"x">>)],
     [NoArgs EXCEPT !.subject = Some("s")],
     [NoArgs EXCEPT !.assignee_ref = Some(<<"a", "b">>)]}

CommandEnvironments ==
    {[requests_installed |-> TRUE, OPENPROJECT_BASE_URL |-> Some(<<"h">>),
      OPENPROJECT_AUTH_MODE |-> Absent, OPENPROJECT_API_TOKEN |-> t,
      OPENPROJECT_USERNAME |-> Absent, OPENPROJECT_PASSWORD |-> Absent] :
        t \in {Absent, Some(<<"k">>)}}

\* command_update_work_package up to the return of client.update_work_package
\* or up to the first page request of get_users
UpdateCommandCall ==
    /\ pc = "idle"
    /\ \E c \in CommandArgs, env \in CommandEnvironments :
         LET start_date == DateArg(c.start_date, "--start-date")
             due_date == DateArg(c.due_date, "--due-date")
             client == build_client_from_env(env)
             date(d) == IF d.value = <<>> THEN Absent ELSE Some(Concat(d.value))
         IN /\ op' = "command_update_work_package"
            /\ args' = c
            /\ IF ~AnyFieldGiven(c)
               THEN Finish(Outcome(<<>>, Error("Provide at least one field to update.", <<>>, NoStatus)))
               ELSE IF start_date.kind = "error" THEN Finish(Outcome(<<>>, start_date))
               ELSE IF due_date.kind = "error" THEN Finish(Outcome(<<>>, due_date))
               ELSE IF client.kind = "error" THEN Finish(Outcome(<<>>, client))
               ELSE update_work_package_run([c EXCEPT !.start_date = date(start_date),
                                                      !.due_date = date(due_date)])
    /\ UNCHANGED server
    /\ UNCHANGED files

NextUpdate ==
    \/ UpdateCall
    \/ UpdateCommandCall
    \/ FetchPage
    \/ LoopEnd
    \/ UpdateReturn

(***************************************************************************)
(* create_relation                                                         *)
(***************************************************************************)
RELATION_TYPES ==
    {<<"r", "e", "l", "a", "t", "e", "s">>,
     <<"d", "u", "p", "l", "i", "c", "a", "t", "e", "s">>,
     <<"d", "u", "p", "l", "i", "c", "a", "t", "e", "d">>,
     <<"b", "l", "o", "c", "k", "s">>,
     <<"b", "l", "o", "c", "k", "e", "d">>,
     <<"p", "r", "e", "c", "e", "d", "e", "s">>,
     <<"f", "o", "l", "l", "o", "w", "s">>,
     <<"i", "n", "c", "l", "u", "d", "e", "s">>,
     <<"p", "a", "r", "t", "o", "f">>,
     <<"r", "e", "q", "u", "i", "r", "e", "s">>,
     <<"r", "e", "q", "u", "i", "r", "e", "d">>}

RelationAsGiven(relation_type) == relation_type

\* relation_type.strip().lower()
Relation(relation_type) == Lower(Strip(relation_type))

RelationResponses ==
    {[status |-> st, body |-> Absent] : st \in {200, 201, 404, 422, NoStatus}}
    \cup {[status |-> 201, body |-> Some(Junk)]}

RelationsPath(from_work_package_id) == "/work_packages/" \o ToString(from_work_package_id) \o "/relations"

\* create_relation
create_relation(from_work_package_id, to_work_package_id, relation_type, description, lag) ==
    LET relation == Relation(relation_type) IN
    IF relation \notin RELATION_TYPES
    THEN Raise(Error("Unsupported relation type", <<relation_type, Sorted(RELATION_TYPES)>>, NoStatus))
    ELSE Call("POST", RelationsPath(from_work_package_id),
              Some([type |-> relation,
                    to |-> Href("/work_packages/" \o ToString(to_work_package_id)),
                    description |-> description,
                    lag |-> lag]),
              {200, 201}, RelationResponses)

RelationTypeArgs ==
    {<<"b", "l", "o", "c", "k", "s">>,
     <<" ", "B", "l", "o", "c", "k", "s", " ">>,
     <<"P", "A", "R", "T", "O", "F">>,
     <<"b", "l", "o", "c", "k">>,
     <<"p", "a", "r", "t", " ", "o", "f">>,
     <<"r", "e", "l", "a", "t", "e", "s", "x">>,
     <<" ">>,
     <<>>}

MaxWorkPackageId == 2

CreateRelationCall ==
    /\ pc = "idle"
    /\ \E from \in 1..MaxWorkPackageId, to \in 1..MaxWorkPackageId, relation_type \in RelationTypeArgs,
          description \in {Absent, Some("d")}, lag \in {Absent, Some(0), Some(1)} :
         \E o \in create_relation(from, to, relation_type, description, lag) :
            /\ op' = "create_relation"
            /\ args' = [from_work_package_id |-> from, to_work_package_id |-> to,
                        relation_type |-> relation_type, description |-> description, lag |-> lag]
            /\ requests' = o.reqs
            /\ result' = o.res
    /\ pc' = "done"
    /\ UNCHANGED <<server, limit, page_size, collected, offset, locals>>
    /\ UNCHANGED files

NextRelation == CreateRelationCall

SpecRelation == InitRequest /\ [][NextRelation]_vars

\* C15: create_relation compares the trimmed, lower-cased relation type
\* with the fixed vocabulary before any request: a type outside it raises an
\* error and no request is made; a type inside it is sent, trimmed and
\* lower-cased, in the one POST of the operation.
C15_VocabularyCheckedFirst ==
    op = "create_relation" =>
        IF Lower(Strip(args.relation_type)) \in RELATION_TYPES
        THEN /\ Len(requests) = 1
             /\ requests[1].method = "POST"
             /\ requests[1].path = RelationsPath(args.from_work_package_id)
             /\ requests[1].payload[1].type = Lower(Strip(args.relation_type))
        ELSE /\ requests = <<>>
             /\ result.kind = "error"
             /\ result.message.text = "Unsupported relation type"
             /\ result.status_code = NoStatus

\* The relation type "block" is outside the vocabulary and was refused
\* without a request
C15_Witness ==
    /\ op = "create_relation"
    /\ args.relation_type = <<"b", "l", "o", "c", "k">>
    /\ requests = <<>>
    /\ result.kind = "error"
    /\ result.message.detail[1] = <<"b", "l", "o", "c", "k">>
    /\ Len(result.message.detail[2]) = Cardinality(RELATION_TYPES)

(***************************************************************************)
(* main and the commands it runs                                           *)
(***************************************************************************)
\* _legacy_request: the error raised for a transport failure or for a
\* response outside expected_statuses
LegacyError(method, path, resp) ==
    IF resp.status = NoStatus
    THEN Error("Network error while calling legacy endpoint", <<>>, NoStatus)
    ELSE IF resp.status \in {401, 403}
    THEN Error("Legacy wiki endpoint rejected authentication.", <<>>, NoStatus)
    ELSE Error("OpenProject legacy API error",
               <<resp.status, method, path, extract_error_message(resp)>>, resp.status)

\* self._legacy_request(method, path, expected_statuses=...)
LegacyCall(method, path, expected, Resps) ==
    {Outcome(<<Request(method, path, Absent, r)>>,
             IF r.status \in expected THEN Ok(Decoded(r)) ELSE LegacyError(method, path, r)) :
        r \in Resps}

WikiPageId == 9

\* GET /wiki_pages/{id}: the title, the identifier of the embedded project
\* and the raw text of the page
WikiPageResponses ==
    {[status |-> 200, body |-> b] :
        b \in {Absent} \cup
              {Some([title |-> <<"T">>, project |-> p, raw |-> t]) :
                  p \in {<<>>, <<"a">>}, t \in {<<>>, <<"t">>}}}
    \cup {[status |-> st, body |-> Absent] : st \in {404, NoStatus}}

LegacyWikiResponses ==
    {[status |-> 200, body |-> Some([title |-> <<"T">>, project |-> <<"a">>, raw |-> <<"t">>])]}
    \cup {[status |-> st, body |-> Absent] : st \in {401, 404, 500, NoStatus}}

\* get_wiki_page_by_id
get_wiki_page_by_id(page_id) ==
    Call("GET", "/wiki_pages/" \o ToString(page_id), Absent, {200}, WikiPageResponses)

\* resolve_project_identifier once resolve_project returned the project
ProjectIdentifier(project) ==
    IF TextField(project.identifier) # <<>> THEN Ok(TextField(project.identifier))
    ELSE IF project.id # Absent THEN Ok(IntToStr(project.id[1]))
    ELSE Error("Resolved project does not include identifier or id.", <<>>, NoStatus)

\* f"/projects/{quote(project_identifier, safe='')}/wiki/{encoded_title}.json":
\* quote leaves letters and digits as they are
LegacyWikiPath(project_identifier, title) ==
    "/projects/" \o Concat(project_identifier) \o "/wiki/" \o Concat(title) \o ".json"

\* get_wiki_page once get_projects returned the projects
get_wiki_page_found(projects, project_ref, title) ==
    LET project == resolve_project_scan(projects, Strip(project_ref)) IN
    IF project.kind = "error" THEN Raise(project)
    ELSE IF ProjectIdentifier(project.value).kind = "error" THEN Raise(ProjectIdentifier(project.value))
    ELSE LegacyCall("GET", LegacyWikiPath(ProjectIdentifier(project.value).value, title), {200},
                    LegacyWikiResponses)

Interrupted == [kind |-> "interrupt"]

Crashed == [kind |-> "exception"]

main_exit_zero(outcome) ==
    [kind |-> "exit", code |-> 0, stderr |-> Absent, outcome |-> outcome]

\* main: return 0 after args.func(args); return 1 with "Error: ..." on the
\* error stream for an OpenProjectError; return 130 for a KeyboardInterrupt;
\* any other exception leaves main
main_exit(outcome) ==
    CASE outcome.kind = "ok" ->
           [kind |-> "exit", code |-> 0, stderr |-> Absent, outcome |-> outcome]
      [] outcome.kind = "error" ->
           [kind |-> "exit", code |-> 1, stderr |-> Some(<<"Error: ", outcome.message>>),
            outcome |-> outcome]
      [] outcome.kind = "interrupt" ->
           [kind |-> "exit", code |-> 130, stderr |-> Some(<<"Error: ", "Interrupted.">>),
            outcome |-> outcome]
      [] OTHER -> [kind |-> "exception", outcome |-> outcome]

\* main returns or is left by an exception
MainEnds(reqs, outcome) ==
    /\ requests' = reqs
    /\ result' = main_exit(outcome)
    /\ pc' = "done"

\* command_create_relation
command_create_relation(a) ==
    LET client == build_client_from_env(a.env) IN
    IF client.kind = "error" THEN Raise(client)
    ELSE Then(create_relation(1, 2, a.relation_type, Absent, a.lag),
              LAMBDA relation :
                 IF relation # Absent /\ ~IsDict(relation[1]) THEN {Outcome(<<>>, Crashed)}
                 ELSE Return(relation))

\* command_read_wiki_page with --id, up to the text of the page
command_read_wiki_page_begin(a) ==
    LET client == build_client_from_env(a.env) IN
    IF client.kind = "error" THEN Raise(client)
    ELSE IF a.project # Absent /\ a.project[1] # <<>>
    THEN Raise(Error("Use either --id OR (--project and --title), not both.", <<>>, NoStatus))
    ELSE get_wiki_page_by_id(WikiPageId)

\* if not text and project_identifier and title
NeedsLegacyPage(page) == page # Absent /\ page[1].raw = <<>> /\ page[1].project # <<>>

MainArgs ==
    {[command |-> "create-relation", limit |-> Absent, lag |-> lag, relation_type |-> t,
      project |-> Absent, env |-> env] :
        lag \in {Absent, Some(-1), Some(0)},
        t \in {<<"b", "l", "o", "c", "k", "s">>, <<"b", "l", "o", "c", "k">>},
        env \in CommandEnvironments}
    \cup {[command |-> "list-users", limit |-> Some(l), lag |-> Absent, relation_type |-> <<>>,
           project |-> Absent, env |-> env] :
            l \in -1..MaxLimit, env \in CommandEnvironments}
    \cup {[command |-> "read-wiki-page", limit |-> Absent, lag |-> Absent, relation_type |-> <<>>,
           project |-> p, env |-> env] :
            p \in {Absent, Some(<<"a">>)}, env \in CommandEnvironments}

MainServers ==
    {[kind |-> "indexed", items |-> ps] :
        ps \in {<<>>,
                <<[id |-> Some(1), identifier |-> <<"a">>, name |-> <<"A">>]>>,
                <<[id |-> Some(2), identifier |-> <<"b">>, name |-> <<>>],
                  [id |-> Some(1), identifier |-> <<"a">>, name |-> <<"A">>],
                  [id |-> Some(3), identifier |-> <<"c">>, name |-> <<>>],
                  [id |-> Some(4), identifier |-> <<"d">>, name |-> <<>>]>>}}
    \cup {[kind |-> "fail", items |-> <<>>, status |-> st] : st \in {403, 500, NoStatus}}

\* main up to its return, or up to the first page request of the command
MainCall ==
    /\ pc = "idle"
    /\ \E a \in MainArgs, interrupted \in BOOLEAN :
         /\ op' = "main"
         /\ args' = a
         /\ IF a.limit # Absent /\ a.limit[1] <= 0
            THEN /\ MainEnds(<<>>, Error("--limit must be greater than 0.", <<>>, NoStatus))
                 /\ UNCHANGED <<limit, page_size, collected, offset, locals>>
            ELSE IF a.lag # Absent /\ a.lag[1] < 0
            THEN /\ MainEnds(<<>>, Error("--lag must be zero or greater.", <<>>, NoStatus))
                 /\ UNCHANGED <<limit, page_size, collected, offset, locals>>
            ELSE IF interrupted
            THEN /\ MainEnds(<<>>, Interrupted)
                 /\ UNCHANGED <<limit, page_size, collected, offset, locals>>
            ELSE IF a.command = "create-relation"
            THEN /\ \E o \in command_create_relation(a) : MainEnds(o.reqs, o.res)
                 /\ UNCHANGED <<limit, page_size, collected, offset, locals>>
            ELSE IF a.command = "list-users"
            THEN IF build_client_from_env(a.env).kind = "error"
                 THEN /\ MainEnds(<<>>, build_client_from_env(a.env))
                      /\ UNCHANGED <<limit, page_size, collected, offset, locals>>
                 ELSE /\ StartCollect(a.limit[1], Absent)
                      /\ requests' = <<>>
                      /\ UNCHANGED <<locals, result>>
            ELSE \E o \in command_read_wiki_page_begin(a) :
                    IF o.res.kind = "ok" /\ NeedsLegacyPage(o.res.value)
                    THEN /\ StartCollect(GetProjectsLimit, Absent)
                         /\ requests' = o.reqs
                         /\ locals' = o.res.value[1]
                         /\ UNCHANGED result
                    ELSE /\ MainEnds(o.reqs, o.res)
                         /\ UNCHANGED <<limit, page_size, collected, offset, locals>>
    /\ UNCHANGED server
    /\ UNCHANGED files

\* The command once its collection returned or raised, and the rest of main
MainReturn ==
    /\ op = "main"
    /\ pc \in {"ret", "raise"}
    /\ IF args.command = "list-users"
       THEN \* except OpenProjectError: 403 is reworded, every other error re-raised
            MainEnds(requests,
                     IF pc = "ret" THEN Ok(Some(Truncate(collected, limit)))
                     ELSE IF LastError.status_code = 403
                     THEN Error("Listing users is forbidden for this token/role.", <<>>, NoStatus)
                     ELSE LastError)
       ELSE \* try: client.get_wiki_page(...) except OpenProjectError: pass
            \E o \in (IF pc = "raise" THEN Raise(LastError)
                      ELSE get_wiki_page_found(Truncate(collected, limit), locals.project, locals.title)) :
               MainEnds(requests \o o.reqs,
                        IF o.res.kind = "error" \/ o.res.value = Absent
                        THEN Ok(Some(locals)) ELSE o.res)
    /\ UNCHANGED <<op, args, server, limit, page_size, collected, offset, locals>>
    /\ UNCHANGED files

\* A KeyboardInterrupt while the command waits for a page
MainInterrupt ==
    /\ op = "main"
    /\ pc = "loop"
    /\ MainEnds(requests, Interrupted)
    /\ UNCHANGED <<op, args, server, limit, page_size, collected, offset, locals>>
    /\ UNCHANGED files

InitMain ==
    /\ pc = "idle"
    /\ op = "none"
    /\ args = [none |-> TRUE]
    /\ server \in MainServers
    /\ limit = 0
    /\ page_size = 1
    /\ collected = <<>>
    /\ offset = 1
    /\ requests = <<>>
    /\ locals = NoLocals
    /\ result = NoResult
    /\ files = NoFiles

NextMain == MainCall \/ FetchPage \/ LoopEnd \/ MainReturn \/ MainInterrupt

SpecMain == InitMain /\ [][NextMain]_vars

\* main ended
MainDone == op = "main" /\ pc = "done"

\* C18: main returns 0 exactly when the command completed without raising,
\* 1 with the message after "Error: " on the error stream when an
\* OpenProjectError was raised, and 130 on a KeyboardInterrupt.
C18_ExitCodes ==
    MainDone =>
        /\ result.outcome.kind = "ok" <=> (result.kind = "exit" /\ result.code = 0)
        /\ result.outcome.kind = "error" =>
              /\ result.kind = "exit"
              /\ result.code = 1
              /\ result.stderr = Some(<<"Error: ", result.outcome.message>>)
        /\ result.outcome.kind = "interrupt" => (result.kind = "exit" /\ result.code = 130)
        /\ (args.limit # Absent /\ args.limit[1] <= 0) =>
              (result.kind = "exit" /\ result.code = 1 /\ requests = <<>>)
        /\ (args.lag # Absent /\ args.lag[1] < 0) =>
              (result.kind = "exit" /\ result.code = 1 /\ requests = <<>>)

\* list-users failed on its page request with 500 and main returned 1
C18_Witness ==
    /\ MainDone
    /\ args.command = "list-users"
    /\ Len(requests) = 1
    /\ requests[1].resp.status = 500
    /\ result.kind = "exit"
    /\ result.code = 1
    /\ result.stderr = Some(<<"Error: ", LastError.message>>)

\* The request failed: a transport failure or a status outside the expected
\* ones
Failed(r) ==
    IF r.method = "POST" THEN r.resp.status \notin {200, 201} ELSE r.resp.status # 200

\* C19: when a request of the command failed (none of these commands has a
\* status-code fallback to an alternate endpoint) and the command was not
\* interrupted, main returns 1.
C19_ErrorsSurface ==
    (MainDone /\ result.outcome.kind # "interrupt"
       /\ \E i \in 1..Len(requests) : Failed(requests[i])) =>
        (result.kind = "exit" /\ result.code = 1)

(***************************************************************************)
(* unique_path and command_log_decision                                    *)
(***************************************************************************)
\* [a-z0-9]
IsSlugChar(c) == IsDigitChar(c) \/ \E i \in 1..Len(LowerLetters) : c = LowerLetters[i]

\* The longest suffix of s that starts with a character of [a-z0-9]
RECURSIVE SkipRun(_)
SkipRun(s) == IF s = <<>> \/ IsSlugChar(Head(s)) THEN s ELSE SkipRun(Tail(s))

\* re.sub(r"[^a-z0-9]+", "-", value)
RECURSIVE Hyphenate(_)
Hyphenate(s) ==
    IF s = <<>> THEN <<>>
    ELSE IF IsSlugChar(Head(s)) THEN <<Head(s)>> \o Hyphenate(Tail(s))
    ELSE <<"-">> \o Hyphenate(SkipRun(s))

\* str.strip("-")
RECURSIVE StripHyphens(_)
StripHyphens(s) ==
    IF s # <<>> /\ Head(s) = "-" THEN StripHyphens(Tail(s))
    ELSE IF s # <<>> /\ s[Len(s)] = "-" THEN StripHyphens(SubSeq(s, 1, Len(s) - 1))
    ELSE s

\* slugify
slugify(value) ==
    LET slug == StripHyphens(Hyphenate(Lower(value)))
    IN IF slug # <<>> THEN slug ELSE <<"d", "e", "c", "i", "s", "i", "o", "n">>

\* A path: its directory, and the stem and the suffix of its name
Path(parent, stem, suffix) == [parent |-> parent, stem |-> stem, suffix |-> suffix]

\* str(path)
PathName(path) == path.parent \o "/" \o path.stem \o path.suffix

\* base_path.with_name(f"{base_path.stem}-{counter}{base_path.suffix}")
Candidate(base_path, counter) ==
    PathName([base_path EXCEPT !.stem = base_path.stem \o "-" \o ToString(counter)])

unique_path_base(fs, base_path) == PathName(base_path)

\* counter = 2; while True: ... counter += 1
RECURSIVE unique_path_loop(_, _, _)
unique_path_loop(fs, base_path, counter) ==
    IF Candidate(base_path, counter) \notin DOMAIN fs THEN Candidate(base_path, counter)
    ELSE unique_path_loop(fs, base_path, counter + 1)

\* unique_path, in the file system fs
unique_path(fs, base_path) ==
    IF PathName(base_path) \notin DOMAIN fs THEN PathName(base_path)
    ELSE unique_path_loop(fs, base_path, 2)

\* write_text_file: path.write_text(content)
write_text_file(fs, path, content) ==
    [p \in DOMAIN fs \cup {path} |-> IF p = path THEN content ELSE fs[p]]

DecisionDir == "decisions"

Today == "2026-11-05"

\* decision_dir / f"{today}_{slugify(args.title)}.md"
DecisionPath(title) == Path(DecisionDir, Today \o "_" \o Concat(slugify(title)), ".md")

Titles == {<<"A", " ", "b">>, <<"a", "-", "-", "b", "!">>, <<"?">>}

\* The content of a file written before the program ran
OldContent == [title |-> <<>>, decision |-> "old"]

MaxFiles == 4

\* The files found in the decision directory when the program starts
OldFiles ==
    {[p \in D |-> OldContent] :
        D \in {{},
               {PathName(DecisionPath(<<"A", " ", "b">>))},
               {PathName(DecisionPath(<<"A", " ", "b">>)), Candidate(DecisionPath(<<"A", " ", "b">>), 2)},
               {PathName(DecisionPath(<<"A", " ", "b">>)), Candidate(DecisionPath(<<"A", " ", "b">>), 3)},
               {Candidate(DecisionPath(<<"A", " ", "b">>), 2)},
               {PathName(DecisionPath(<<"?">>))}}}

\* unique_path called directly
UniquePathCall ==
    /\ pc = "idle"
    /\ \E base_path \in {DecisionPath(t) : t \in Titles} \cup {Path(DecisionDir, "notes", "")} :
         /\ op' = "unique_path"
         /\ args' = [base_path |-> base_path]
         /\ result' = Ok(unique_path(files, base_path))
    /\ UNCHANGED <<pc, server, limit, page_size, collected, offset, requests, locals, files>>

\* command_log_decision, one run of the program after the other
LogDecisionCall ==
    /\ pc = "idle"
    /\ Cardinality(DOMAIN files) < MaxFiles
    /\ \E title \in Titles, project \in {Absent, Some(<<"p">>)} :
         /\ op' = "command_log_decision"
         /\ args' = [project |-> project, title |-> title, decision |-> "new"]
         /\ IF project = Absent
            THEN \* require_project, without OPENPROJECT_DEFAULT_PROJECT
                 /\ result' = Error("--project is required unless OPENPROJECT_DEFAULT_PROJECT is set.",
                                    <<>>, NoStatus)
                 /\ UNCHANGED files
            ELSE LET file_path == unique_path(files, DecisionPath(title)) IN
                 /\ files' = write_text_file(files, file_path, [title |-> title, decision |-> "new"])
                 /\ result' = Ok(file_path)
    /\ UNCHANGED <<pc, server, limit, page_size, collected, offset, requests, locals>>

InitDecision ==
    /\ pc = "idle"
    /\ op = "none"
    /\ args = [none |-> TRUE]
    /\ server = [kind |-> "none", items |-> <<>>]
    /\ limit = 0
    /\ page_size = 1
    /\ collected = <<>>
    /\ offset = 1
    /\ requests = <<>>
    /\ locals = NoLocals
    /\ result = NoResult
    /\ files \in OldFiles

NextDecision == UniquePathCall \/ LogDecisionCall

SpecDecision == InitDecision /\ [][NextDecision]_vars

\* path is what the claim says unique_path returns for base_path in fs: the
\* base path when no such file exists, otherwise the sibling with the
\* smallest suffix -N, N >= 2, that does not exist
IsFirstFree(path, fs, base_path) ==
    /\ path \notin DOMAIN fs
    /\ IF PathName(base_path) \notin DOMAIN fs THEN path = PathName(base_path)
       ELSE \E n \in 2..(Cardinality(DOMAIN fs) + 2) :
               /\ path = Candidate(base_path, n)
               /\ \A m \in 2..(n - 1) : Candidate(base_path, m) \in DOMAIN fs

\* C20: unique_path returns a path that does not exist, the base path or
\* else its first free sibling -N; every run of log-decision that writes
\* creates one new file at such a path and leaves the content of every
\* file that existed unchanged.
C20_NeverOverwrites ==
    [][/\ (op' = "unique_path" /\ result' # result) =>
             IsFirstFree(result'.value, files, args'.base_path)
       /\ (op' = "command_log_decision" /\ files' # files) =>
             /\ IsFirstFree(result'.value, files, DecisionPath(args'.title))
             /\ DOMAIN files' = DOMAIN files \cup {result'.value}
             /\ \A p \in DOMAIN files : files'[p] = files[p]
             /\ files'[result'.value].decision = "new"]_vars

\* Two decisions with the same slug were logged next to an old file and its
\* sibling -3: the files -2 and -4 were created and the old ones kept
C20_Witness ==
    /\ op = "command_log_decision"
    /\ result = Ok(Candidate(DecisionPath(<<"A", " ", "b">>), 4))
    /\ PathName(DecisionPath(<<"A", " ", "b">>)) \in DOMAIN files
    /\ files[PathName(DecisionPath(<<"A", " ", "b">>))] = OldContent
    /\ files[Candidate(DecisionPath(<<"A", " ", "b">>), 3)] = OldContent
    /\ files[Candidate(DecisionPath(<<"A", " ", "b">>), 2)].decision = "new"
    /\ files[Candidate(DecisionPath(<<"A", " ", "b">>), 4)].decision = "new"

(***************************************************************************)
(* to_api_path                                                             *)
(***************************************************************************)
\* API_PREFIX, one character per element
ApiPrefixText == <<"/", "a", "p", "i", "/", "v", "3">>

\* s.startswith(prefix)
StartsWith(s, prefix) == Len(s) >= Len(prefix) /\ SubSeq(s, 1, Len(prefix)) = prefix

\* s from position i on
From(s, i) == SubSeq(s, i, Len(s))

\* The first position of s that holds a character of cs, Len(s) + 1 if none
FirstOf(s, cs) == Least({i \in 1..Len(s) : s[i] \in cs} \cup {Len(s) + 1})

\* urlparse(value).path for a value that holds "://" after a scheme of
\* letters: what follows the network location, up to the query or fragment
UrlPath(value) ==
    LET start == Least({i \in 1..Len(value) : StartsWith(From(value, i), <<":", "/", "/">>)})
        after == From(value, start + 3)
        rest == From(after, FirstOf(after, {"/", "?", "#"}))
    IN SubSeq(rest, 1, FirstOf(rest, {"?", "#"}) - 1)

\* to_api_path
to_api_path(url_or_path) ==
    LET value == Strip(url_or_path)
        parsed == IF Contains(value, <<":", "/", "/">>)
                  THEN (IF UrlPath(value) # <<>> THEN UrlPath(value) ELSE <<"/">>)
                  ELSE value
        stripped == IF StartsWith(parsed, ApiPrefixText)
                    THEN (IF From(parsed, Len(ApiPrefixText) + 1) # <<>>
                          THEN From(parsed, Len(ApiPrefixText) + 1) ELSE <<"/">>)
                    ELSE parsed
    IN IF value = <<>> THEN <<"/">>
       ELSE IF ~StartsWith(stripped, <<"/">>) THEN <<"/">> \o stripped
       ELSE stripped

\* The hrefs and paths given: blanks, an origin, a leading segment, the API
\* prefix, a tail and a query, each present or not
PathArgs ==
    {lead \o origin \o sub \o prefix \o tail \o query :
        lead \in {<<>>, <<" ">>},
        origin \in {<<>>, <<"h", "t", "t", "p", "s", ":", "/", "/", "h">>},
        sub \in {<<>>, <<"/", "s", "u", "b">>, <<"x">>},
        prefix \in {<<>>, ApiPrefixText},
        tail \in {<<>>, <<"/">>, <<"/", "w", "p", "/", "1">>, <<"x">>, <<"/", "/", "x">>},
        query \in {<<>>, <<"?", "q", "=", "1">>}}

ToApiPathCall ==
    /\ pc = "idle"
    /\ \E url_or_path \in PathArgs :
         /\ op' = "to_api_path"
         /\ args' = [url_or_path |-> url_or_path]
         /\ result' = Ok(to_api_path(url_or_path))
    /\ pc' = "done"
    /\ UNCHANGED <<server, limit, page_size, collected, offset, requests, locals, files>>

NextPath == ToApiPathCall

SpecPath == InitRequest /\ [][NextPath]_vars

\* C21: for an href or path that contains the API prefix the result has the
\* prefix stripped and exactly one leading slash; for a bare relative path
\* the result is the input with one leading slash added; for a full URL only
\* the path component, with the prefix stripped, survives.
C21_PrefixStripped ==
    (op = "to_api_path" /\ pc = "done") =>
        LET value == Strip(args.url_or_path)
            path == result.value
        IN /\ StartsWith(path, <<"/">>)
           /\ Contains(value, ApiPrefixText) =>
                 /\ ~Contains(path, ApiPrefixText)
                 /\ ~StartsWith(path, <<"/", "/">>)
           /\ (~Contains(value, ApiPrefixText) /\ ~Contains(value, <<":", "/", "/">>)
                 /\ value # <<>> /\ ~StartsWith(value, <<"/">>)) =>
                 path = <<"/">> \o value
           /\ Contains(value, <<":", "/", "/">>) =>
                 /\ ~Contains(path, <<":", "/", "/">>)
                 /\ ~Contains(path, <<"?">>)

(***************************************************************************)
(* Calling ensure_iso_date directly                                        *)
(***************************************************************************)
\* The values given: blanks, a year, a separator, a month, the separator, a
\* day and blanks
DateArgs ==
    {lead \o y \o sep \o m \o sep \o d \o trail :
        lead \in {<<>>, <<" ">>},
        y \in {<<"2", "0", "2", "6">>, <<"2", "0", "2", "4">>, <<"0", "0", "0", "0">>, <<"2", "0", "2">>, <<"2", "4">>},
        sep \in {<<"-">>, <<".">>},
        m \in {<<"0", "2">>, <<"2">>, <<"1", "2">>, <<"1", "3">>, <<" ", "2">>},
        d \in {<<"2", "4">>, <<"4">>, <<"2", "9">>, <<"3", "0">>, <<" ", "4">>, <<"0", "0">>, <<"2", "0", "2", "6">>},
        trail \in {<<>>, <<" ">>}}
    \cup {<<>>, <<"x">>, <<"2", "0", "2", "6", "0", "2", "2", "4">>}

EnsureIsoDateCall ==
    /\ pc = "idle"
    /\ \E value \in DateArgs :
         /\ op' = "ensure_iso_date"
         /\ args' = [value |-> value, arg_name |-> "--start-date"]
         /\ result' = ensure_iso_date(value, "--start-date")
    /\ pc' = "done"
    /\ UNCHANGED <<server, limit, page_size, collected, offset, requests, locals, files>>

NextDate == EnsureIsoDateCall

SpecDate == InitRequest /\ [][NextDate]_vars

\* s has the form YYYY-MM-DD, four digits, two digits and two digits, and
\* denotes a day of the calendar
IsIsoDate(s) ==
    /\ Len(s) = 10
    /\ s[5] = "-" /\ s[8] = "-"
    /\ IsDigit(SubSeq(s, 1, 4)) /\ IsDigit(SubSeq(s, 6, 7)) /\ IsDigit(SubSeq(s, 9, 10))
    /\ StrToInt(SubSeq(s, 1, 4)) >= 1
    /\ StrToInt(SubSeq(s, 6, 7)) \in 1..12
    /\ StrToInt(SubSeq(s, 9, 10)) \in
          1..DaysInMonth(StrToInt(SubSeq(s, 1, 4)), StrToInt(SubSeq(s, 6, 7)))

\* C22: ensure_iso_date accepts exactly the strings of the form YYYY-MM-DD
\* that denote a valid calendar date, surrounding whitespace ignored, and
\* returns the trimmed value; every other string raises an error.
C22_ExactlyIsoDates ==
    (op = "ensure_iso_date" /\ pc = "done") =>
        IF IsIsoDate(Strip(args.value))
        THEN result = Ok(Strip(args.value))
        ELSE result.kind = "error"

(***************************************************************************)
(* status_bucket and build_weekly_summary                                  *)
(***************************************************************************)
\* normalize: value.strip().lower()
normalize(value) == Lower(Strip(value))

CompletedTokens == {<<"d", "o", "n", "e">>, <<"c", "l", "o", "s", "e", "d">>, <<"r", "e", "s", "o", "l", "v", "e", "d">>, <<"c", "o", "m", "p", "l", "e", "t", "e">>, <<"c", "o", "m", "p", "l", "e", "t", "e", "d">>}

BlockerTokens == {<<"b", "l", "o", "c", "k">>, <<"r", "i", "s", "k">>, <<"h", "o", "l", "d">>, <<"s", "t", "u", "c", "k">>}

ProgressTokens ==
    {<<"p", "r", "o", "g", "r", "e", "s", "s">>, <<"d", "o", "i", "n", "g">>, <<"r", "e", "v", "i", "e", "w">>, <<"t", "e", "s", "t">>, <<"a", "c", "t", "i", "v", "e">>, <<"o", "p", "e", "n">>, <<"n", "e", "w">>}

status_bucket_exact(status_name) ==
    LET label == normalize(status_name) IN
    IF label \in CompletedTokens THEN "completed"
    ELSE IF label \in BlockerTokens THEN "blockers"
    ELSE "in_progress"

\* status_bucket
status_bucket(status_name) ==
    LET label == normalize(status_name) IN
    IF \E token \in CompletedTokens : Contains(label, token) THEN "completed"
    ELSE IF \E token \in BlockerTokens : Contains(label, token) THEN "blockers"
    ELSE IF \E token \in ProgressTokens : Contains(label, token) THEN "in_progress"
    ELSE "in_progress"

\* link_title(wp, "status", "-") for a work package whose status link has a
\* title or none
StatusTitle(wp) ==
    IF wp.status # Absent /\ Strip(wp.status[1]) # <<>> THEN Strip(wp.status[1]) ELSE <<"-">>

\* The work packages of list that the loop of build_weekly_summary appends to
\* the list of the bucket
Group(work_packages, bucket) ==
    SelectSeq(work_packages, LAMBDA wp : status_bucket(StatusTitle(wp)) = bucket)

\* build_weekly_summary: its three lists
build_weekly_summary(work_packages) ==
    [completed |-> Group(work_packages, "completed"),
     blockers |-> Group(work_packages, "blockers"),
     in_progress |-> SelectSeq(work_packages,
                               LAMBDA wp : status_bucket(StatusTitle(wp)) \notin {"completed", "blockers"})]

StatusLabels ==
    {<<"C", "l", "o", "s", "e", "d">>,
     <<"I", "n", " ", "p", "r", "o", "g", "r", "e", "s", "s">>,
     <<"O", "n", " ", "h", "o", "l", "d", " ", "/", " ", "b", "l", "o", "c", "k", "e", "r">>,
     <<" ", "N", "E", "W", " ">>,
     <<"U", "n", "r", "e", "s", "o", "l", "v", "e", "d">>,
     <<"D", "o", "n", "e", " ", "-", " ", "b", "l", "o", "c", "k", "e", "d">>,
     <<"R", "e", "j", "e", "c", "t", "e", "d">>,
     <<"T", "e", "s", "t", "i", "n", "g", " ", "r", "i", "s", "k">>,
     <<>>}

MaxPackages == 2

\* Work packages numbered in list order, each with a status title or none
WorkPackageLists ==
    UNION {{[i \in 1..k |-> [id |-> i, status |-> f[i]]] :
              f \in [1..k -> {Some(l) : l \in StatusLabels} \cup {Absent}]} :
           k \in 0..MaxPackages}

StatusBucketCall ==
    /\ pc = "idle"
    /\ \E status_name \in StatusLabels :
         /\ op' = "status_bucket"
         /\ args' = [status_name |-> status_name]
         /\ result' = Ok(status_bucket(status_name))
    /\ pc' = "done"
    /\ UNCHANGED <<server, limit, page_size, collected, offset, requests, locals, files>>

WeeklySummaryCall ==
    /\ pc = "idle"
    /\ \E work_packages \in WorkPackageLists :
         /\ op' = "build_weekly_summary"
         /\ args' = [work_packages |-> work_packages]
         /\ result' = Ok(build_weekly_summary(work_packages))
    /\ pc' = "done"
    /\ UNCHANGED <<server, limit, page_size, collected, offset, requests, locals, files>>

NextSummary == StatusBucketCall \/ WeeklySummaryCall

SpecSummary == InitRequest /\ [][NextSummary]_vars

\* The number of places of list that hold x
Occurrences(list, x) == Cardinality({i \in 1..Len(list) : list[i] = x})

\* No recognised keyword is part of the label
NoKeyword(label) ==
    \A token \in CompletedTokens \cup BlockerTokens \cup ProgressTokens :
        ~Contains(Lower(Strip(label)), token)

FallsBackAlways(err) == TRUE

\* except OpenProjectError as exc: if exc.status_code not in (404, 405): raise
FallsBack(err) == err.status_code \in {404, 405}

\* return self._collect_collection(wp_relations_path, limit=limit)
ListRelationsCall ==
    /\ pc = "idle"
    /\ \E id \in 1..MaxWorkPackageId, lim \in 0..MaxLimit :
         /\ op' = "list_work_package_relations"
         /\ args' = [work_package_id |-> id, limit |-> lim]
         /\ StartCollect(lim, Absent)
    /\ locals' = [fallback |-> FALSE]
    /\ requests' = <<>>
    /\ UNCHANGED <<server, result>>
    /\ UNCHANGED files

\* The work-package relations endpoint answered 404 or 405:
\* return self._collect_collection("/relations", params={"filters": filters}, limit=limit)
ListRelationsFallback ==
    /\ op = "list_work_package_relations"
    /\ pc = "raise"
    /\ ~locals.fallback
    /\ FallsBack(LastError)
    /\ locals' = [fallback |-> TRUE]
    /\ StartCollect(args.limit, Absent)
    /\ UNCHANGED <<op, args, server, requests, result>>
    /\ UNCHANGED files

\* Either collection returned, or an error is let through
ListRelationsReturn ==
    /\ op = "list_work_package_relations"
    /\ pc \in {"ret", "raise"}
    /\ pc = "raise" => (locals.fallback \/ ~FallsBack(LastError))
    /\ result' = IF pc = "raise" THEN LastError ELSE Ok(Truncate(collected, limit))
    /\ pc' = "done"
    /\ UNCHANGED <<op, args, server, limit, page_size, collected, offset, requests, locals>>
    /\ UNCHANGED files

InitListRelations ==
    /\ pc = "idle"
    /\ op = "none"
    /\ args = [none |-> TRUE]
    /\ server = [kind |-> "relations", items |-> <<>>]
    /\ limit = 0
    /\ page_size = 1
    /\ collected = <<>>
    /\ offset = 1
    /\ requests = <<>>
    /\ locals = NoLocals
    /\ result = NoResult
    /\ files = NoFiles

NextListRelations ==
    \/ ListRelationsCall
    \/ FetchPage
    \/ LoopEnd
    \/ ListRelationsFallback
    \/ ListRelationsReturn

SpecListRelations == InitListRelations /\ [][NextListRelations]_vars

\* The request went to the relations endpoint of the work package
IsPrimary(r) == r.path = "/work_packages/" \o ToString(args.work_package_id) \o "/relations"

\* The request went to the filter-based /relations endpoint
IsSecondary(r) == r.path = "/relations"

\* C27: list_work_package_relations asks /work_packages/{id}/relations first
\* and asks /relations only after that endpoint failed with 404 or 405; any
\* other failure of the first endpoint ends the operation with that error and
\* no further request, and a failure of /relations is returned unchanged.
C27_FallbackOnlyOn404Or405 ==
    op = "list_work_package_relations" =>
        /\ \A i \in 1..Len(requests) : IsPrimary(requests[i]) \/ IsSecondary(requests[i])
        /\ requests # <<>> => IsPrimary(requests[1])
        /\ \A i \in 2..Len(requests) :
              LET before == requests[i - 1] IN
              /\ IsSecondary(before) => IsSecondary(requests[i]) /\ before.resp.status = 200
              /\ IsPrimary(before) /\ IsSecondary(requests[i]) => before.resp.status \in {404, 405}
              /\ IsPrimary(before) /\ IsPrimary(requests[i]) => before.resp.status = 200
        /\ (pc = "done" /\ requests # <<>>) =>
              LET last == requests[Len(requests)] IN
              /\ last.resp.status # 200 =>
                    /\ ~(IsPrimary(last) /\ last.resp.status \in {404, 405})
                    /\ result = RequestError("GET", last.path, last.resp)
              /\ last.resp.status = 200 => result.kind = "ok"

\* The first endpoint answered 404 and the relations came from /relations
C27_Witness ==
    /\ op = "list_work_package_relations" /\ pc = "done"
    /\ Len(requests) = 2
    /\ IsPrimary(requests[1]) /\ requests[1].resp.status = 404
    /\ IsSecondary(requests[2])
    /\ result = Ok(<<[id |-> 1]>>)

\* The first endpoint refused with 403 and nothing else was asked
C27_WitnessRefused ==
    /\ op = "list_work_package_relations" /\ pc = "done"
    /\ Len(requests) = 1
    /\ requests[1].resp.status = 403
    /\ result.kind = "error" /\ result.status_code = 403

\* The first endpoint answered 405 and /relations then failed: that failure
\* is the result
C27_WitnessSecondaryFailed ==
    /\ op = "list_work_package_relations" /\ pc = "done"
    /\ Len(requests) = 2
    /\ requests[1].resp.status = 405
    /\ IsSecondary(requests[2]) /\ requests[2].resp.status = 500
    /\ result.kind = "error" /\ result.status_code = 500

(***************************************************************************)
(* Calling the resolvers by name directly                                  *)
(***************************************************************************)
PriorityNameArgs == {<<"A">>, <<" ", "b">>, <<"x">>}

ResolveStatusCall ==
    /\ pc = "idle"
    /\ \E status_name \in StatusNameArgs :
         \E o \in resolve_status(status_name) :
            /\ op' = "resolve_status"
            /\ args' = [project_id |-> Absent, type_name |-> Some(status_name)]
            /\ requests' = o.reqs
            /\ result' = o.res
    /\ pc' = "done"
    /\ UNCHANGED <<server, limit, page_size, collected, offset, locals>>
    /\ UNCHANGED files

ResolvePriorityCall ==
    /\ pc = "idle"
    /\ \E priority_name \in PriorityNameArgs :
         \E o \in resolve_priority(priority_name) :
            /\ op' = "resolve_priority"
            /\ args' = [project_id |-> Absent, type_name |-> Some(priority_name)]
            /\ requests' = o.reqs
            /\ result' = o.res
    /\ pc' = "done"
    /\ UNCHANGED <<server, limit, page_size, collected, offset, locals>>
    /\ UNCHANGED files

NextResolve == ResolveStatusCall \/ ResolvePriorityCall \/ ResolveTypeCall

SpecResolve == InitType /\ [][NextResolve]_vars

\* A resolver by name ended without an error of the request layer
ListsObtained ==
    /\ pc = "done"
    /\ op \in {"resolve_status", "resolve_priority", "resolve_type"}
    /\ \A j \in 1..Len(requests) :
         \/ requests[j].resp.status = 200
         \/ op = "resolve_type" /\ requests[j].resp.status \in {404, 405}

\* The names of the candidates the server listed, stripped, without the
\* blank ones
CandidateNames ==
    {n \in UNION {{Strip(e.name) : e \in {x \in {requests[j].resp.body[1].elements[k] :
                                                    k \in 1..Len(requests[j].resp.body[1].elements)} :
                                           IsDict(x)}} :
                  j \in {i \in 1..Len(requests) :
                           requests[i].resp.status = 200 /\ requests[i].resp.body # Absent}} :
        n # <<>>}

\* No candidate name equals the requested name case-insensitively
NoCandidateMatches ==
    \A n \in CandidateNames : Lower(n) # Lower(Strip(args.type_name[1]))

\* h lists the strings of S once each, in ascending order
IsSortedListOf(h, S) ==
    /\ {h[i] : i \in 1..Len(h)} = S
    /\ Len(h) = Cardinality(S)
    /\ \A i \in 1..(Len(h) - 1) : StrLess(h[i], h[i + 1])

\* C12: when the candidates include a named entry and none equals the
\* requested name case-insensitively, the error lists all available names,
\* each once, in sorted order; when no candidate has a name, the other
\* terminal error is raised; the two are never confused.
C12_ErrorsDistinguished ==
    (ListsObtained /\ NoCandidateMatches) =>
        /\ result.kind = "error"
        /\ IF CandidateNames # {}
           THEN /\ result.message.text \in {"Unknown status", "Unknown priority", "Unknown type"}
                /\ Len(result.message.detail) = 1
                /\ IsSortedListOf(result.message.detail[1], CandidateNames)
           ELSE /\ result.message.text \in
                      {"No statuses were returned by OpenProject.",
                       "No priorities were returned by OpenProject.",
                       "Could not resolve type list from OpenProject. Check permissions for reading types."}
                /\ result.message.detail = <<>>

\* The project-scoped and the global type list name two types between them,
\* one of them twice, and the error lists the two
C12_Witness ==
    /\ ListsObtained /\ NoCandidateMatches
    /\ op = "resolve_type"
    /\ Len(requests) = 2
    /\ requests[1].resp.status = 200
    /\ Cardinality(CandidateNames) = 2
    /\ result.message.text = "Unknown type"
    /\ result.message.detail = << << <<"B">>, <<"T">> >> >>

InitMutate ==
    /\ pc = "idle"
    /\ op = "none"
    /\ args = [none |-> TRUE]
    /\ server \in AssigneeServers
    /\ limit = 0
    /\ page_size = 1
    /\ collected = <<>>
    /\ offset = 1
    /\ requests = <<>>
    /\ locals = NoLocals
    /\ result = NoResult
    /\ files = NoFiles

NextMutate ==
    \/ UpdateStatusCall
    \/ AddCommentCall
    \/ UpdateCall
    \/ FetchPage
    \/ LoopEnd
    \/ UpdateReturn

SpecMutate == InitMutate /\ [][NextMutate]_vars

SpecUpdate == InitMutate /\ [][NextUpdate]_vars

(***************************************************************************)
(* Claims about type resolution                                            *)
(***************************************************************************)
\* resolve_type or get_types returned or raised for a call with a project id
TypeLookup == pc = "done" /\ op \in {"resolve_type", "get_types"} /\ args.project_id # Absent

\* C7: with a project scope the project-scoped type endpoint is requested
\* first, and the global /types endpoint is requested only after the
\* project-scoped endpoint answered 404 or 405, never after it answered 200.
C7_GlobalOnlyAfterNotFound ==
    TypeLookup =>
        /\ requests[1].path = ProjectTypesPath(args.project_id[1])
        /\ \A j \in 1..Len(requests) :
             requests[j].path = "/types" => j = 2 /\ requests[1].resp.status \in {404, 405}

(***************************************************************************)
(* Claims about the operations that change a work package                  *)
(***************************************************************************)
\* The operation began with a successful GET /work_packages/{id}
FetchedWorkPackage ==
    /\ requests # <<>>
    /\ requests[1].method = "GET"
    /\ requests[1].path = WorkPackagePath
    /\ requests[1].resp.status = 200

\* The work package that GET returned
TheWorkPackage == requests[1].resp.body[1]

\* An operation resolved a status name for a fetched work package that has
\* a lockVersion
StatusResolution ==
    /\ pc = "done"
    /\ \/ op = "update_work_package_status"
       \/ op = "update_work_package" /\ Truthy(args.status_name)
    /\ FetchedWorkPackage
    /\ TheWorkPackage.lockVersion # Absent

IsStatusesGet(j) == requests[j].method = "GET" /\ requests[j].path = "/statuses"

\* Request j is the form preflight: a POST to the update link with the
\* lockVersion of the work package
IsPreflight(j) ==
    /\ TheWorkPackage.update # Absent
    /\ requests[j].method = "POST"
    /\ requests[j].path = LinkPath(TheWorkPackage.update[1])
    /\ requests[j].payload = Some([lockVersion |-> TheWorkPackage.lockVersion, comment |-> Absent,
                                   links |-> NoLinks, fields |-> NoFields])

\* A form answer that lists at least one allowed status with a name
HasNamedAllowed(body) ==
    /\ body # Absent
    /\ body[1].hasStatusSchema
    /\ \E i \in 1..Len(body[1].allowedValues) :
         IsDict(body[1].allowedValues[i]) /\ Strip(body[1].allowedValues[i].name) # <<>>

\* C3 as stated: with an update link the preflight POST comes before any
\* GET /statuses, and the global status list is requested only if the update
\* link is missing or the preflight answered 404, 405 or 422.
C3_GlobalOnlyWhenUnavailable ==
    StatusResolution =>
        /\ TheWorkPackage.update # Absent => Len(requests) >= 2 /\ IsPreflight(2)
        /\ \A j \in 1..Len(requests) :
             (IsStatusesGet(j) /\ TheWorkPackage.update # Absent) =>
                /\ j = 3
                /\ requests[2].resp.status \in {404, 405, 422}

\* C3 (amended): with an update link the preflight POST, carrying the work
\* package's lockVersion, comes before any GET /statuses, and the global
\* status list is requested only if the update link is missing, or the
\* preflight answered 404, 405 or 422, or the preflight answered 200 without
\* any named allowed status.
C3_PreflightFirst ==
    StatusResolution =>
        /\ TheWorkPackage.update # Absent => Len(requests) >= 2 /\ IsPreflight(2)
        /\ \A j \in 1..Len(requests) :
             (IsStatusesGet(j) /\ TheWorkPackage.update # Absent) =>
                /\ j = 3
                /\ \/ requests[2].resp.status \in {404, 405, 422}
                   \/ requests[2].resp.status = 200 /\ ~HasNamedAllowed(requests[2].resp.body)

\* The preflight answered 404, the global status list resolved the name and
\* the PATCH went through
C3_Witness ==
    /\ StatusResolution
    /\ op = "update_work_package_status"
    /\ Len(requests) = 4
    /\ IsPreflight(2)
    /\ requests[2].resp.status = 404
    /\ IsStatusesGet(3)
    /\ requests[4].method = "PATCH"
    /\ result.kind = "ok"

\* The preflight listed named allowed statuses and the requested name is
\* none of them
Refusing ==
    /\ StatusResolution
    /\ TheWorkPackage.update # Absent
    /\ Len(requests) >= 2
    /\ IsPreflight(2)
    /\ requests[2].resp.status = 200
    /\ HasNamedAllowed(requests[2].resp.body)
    /\ LET allowed == requests[2].resp.body[1].allowedValues
       IN ~\E i \in 1..Len(allowed) :
             /\ IsDict(allowed[i])
             /\ Lower(Strip(allowed[i].name)) = Lower(Strip(args.status_name[1]))

\* C4: when the preflight lists named allowed statuses and the requested
\* name matches none of them case-insensitively, update_work_package_status
\* and update_work_package fail with the 'not an allowed transition' error
\* and no PATCH request is sent.
C4_ForbiddenTransitionNotAttempted ==
    Refusing =>
        /\ result.kind = "error"
        /\ result.message.text = "Status is not an allowed transition for this work package."
        /\ \A j \in 1..Len(requests) : requests[j].method # "PATCH"

\* update_work_package was refused a transition the form does not allow
C4_Witness ==
    /\ Refusing
    /\ op = "update_work_package"
    /\ Len(requests) = 2
    /\ result.kind = "error"

MutatingOperations == {"update_work_package_status", "update_work_package", "add_comment"}

IsCommentPost(j) ==
    /\ op = "add_comment"
    /\ ~(requests[j].method = "PATCH" /\ requests[j].path = PatchPath(TheWorkPackage))

StrategyOf(r) ==
    CASE r.path = WorkPackagePath \o "/comments" -> 1
      [] r.method = "PATCH" -> 2
      [] OTHER -> 3

\* Whether a strategy applies to the fetched work package
Applicable(k) ==
    CASE k = 1 -> /\ TheWorkPackage.addComment # Absent
                  /\ TheWorkPackage.addComment[1].href # Absent
                  /\ \/ TheWorkPackage.addComment[1].method = Absent
                     \/ TheWorkPackage.addComment[1].method \in {Some("post"), Some("patch")}
      [] k = 2 -> TheWorkPackage.lockVersion # Absent
      [] OTHER -> TRUE

\* The statuses a strategy's request expects
Succeeded(r) == r.resp.status \in (IF StrategyOf(r) = 2 THEN {200} ELSE {200, 201})

\* add_comment moved on from request j in the order of the strategies, after
\* a whitelisted rejection, skipping only strategies that do not apply
MovedOn(j) ==
    /\ StrategyOf(requests[j]) < StrategyOf(requests[j + 1])
    /\ requests[j].resp.status \in {400, 404, 405, 415, 422}
    /\ \A k \in 1..3 :
         (StrategyOf(requests[j]) < k /\ k < StrategyOf(requests[j + 1])) => ~Applicable(k)

\* C6 as stated: the strategies are tried in the order addComment link,
\* PATCH with lockVersion, activities POST; the next one is tried only after
\* a failure with 400, 404, 405, 415 or 422 (or when one does not apply);
\* any other error is the error the operation raises, with no later request.
C6_OtherErrorsPropagate ==
    (op = "add_comment" /\ pc = "done" /\ FetchedWorkPackage) =>
        /\ Len(requests) >= 2
        /\ \A k \in 1..3 : k < StrategyOf(requests[2]) => ~Applicable(k)
        /\ \A j \in 2..(Len(requests) - 1) : MovedOn(j)
        /\ LET last == requests[Len(requests)]
           IN (~Succeeded(last) /\ last.resp.status \notin {400, 404, 405, 415, 422}) =>
                 result = RequestError(last.method, last.path, last.resp)

\* The single-status or multi-field update ended after its final PATCH
PatchedUpdate ==
    /\ op \in {"update_work_package_status", "update_work_package"}
    /\ pc = "done"
    /\ requests # <<>>
    /\ requests[Len(requests)].method = "PATCH"

FinalPatch == requests[Len(requests)]

RejectedText ==
    IF op = "update_work_package_status"
    THEN "Status update rejected by workflow for work package"
    ELSE "Work package update rejected"

\* C13: when the final PATCH of update_work_package_status or of
\* update_work_package is answered with 422, the result is the operation's
\* 'rejected' error for that work package id, whose message holds the
\* original error with the server's message; any other failure of the PATCH
\* is the result unchanged.
C13_RejectionWrapsDetail ==
    PatchedUpdate /\ FinalPatch.resp.status # 200 =>
        IF FinalPatch.resp.status = 422
        THEN /\ result.kind = "error"
             /\ result.message.text = RejectedText
             /\ result.message.detail[1] = WorkPackageId
             /\ result.message.detail[2].text = "OpenProject API error"
             /\ result.message.detail[2].detail[1] = 422
             /\ IsServerMessage(result.message.detail[2].detail[4], FinalPatch.resp.body)
        ELSE result = RequestError("PATCH", FinalPatch.path, FinalPatch.resp)

\* A multi-field update whose PATCH is answered with 422 and the message
\* "bad" ends in the 'rejected' error that holds that message
C13_Witness ==
    /\ PatchedUpdate
    /\ op = "update_work_package"
    /\ FinalPatch.resp.status = 422
    /\ FinalPatch.resp.body # Absent
    /\ result.kind = "error"
    /\ result.message.text = "Work package update rejected"
    /\ result.message.detail[2].detail[4] = <<"b", "a", "d">>

\* The multi-field update was given no field to change
NothingToChange ==
    /\ op \in {"update_work_package", "command_update_work_package"}
    /\ ~AnyFieldGiven(args)

\* C14: a multi-field update that is given no field to change, by the
\* command or by a direct call of update_work_package, ends in an error and
\* no PATCH request is ever sent.
C14_NoFieldNoPatch ==
    NothingToChange =>
        /\ pc = "done"
        /\ result.kind = "error"
        /\ \A i \in 1..Len(requests) : requests[i].method # "PATCH"

\* update_work_package was called without a field, fetched the work package
\* and raised
C14_Witness ==
    /\ NothingToChange
    /\ op = "update_work_package"
    /\ Len(requests) = 1
    /\ requests[1].resp.status = 200
    /\ result.kind = "error"
    /\ result.message.text = "No fields provided to update."

\* The command was given no field and raised before any request
C14_CommandRefused ==
    /\ NothingToChange
    /\ op = "command_update_work_package"
    /\ requests = <<>>
    /\ result.kind = "error"
    /\ result.message.text = "Provide at least one field to update."

(***************************************************************************)
(* Claims about the single PATCH of update_work_package                    *)
(***************************************************************************)
\* The reference was asked for: given and not empty
Asked(ref) == ref # Absent /\ ref[1] # <<>>

\* Request i changes the server: it is neither a GET nor the POST to the form
\* endpoint by which resolve_allowed_transition_status reads the allowed
\* statuses
Mutating(i) ==
    /\ requests[i].method # "GET"
    /\ ~(requests[i].method = "POST" /\ requests[i].path = WorkPackagePath \o "/form")

\* The errors the resolvers of status, priority, assignee and type raise
ResolverErrors ==
    {"Unknown status", "No statuses were returned by OpenProject.",
     "Status is not an allowed transition for this work package.",
     "Unknown priority", "No priorities were returned by OpenProject.",
     "Assignee value is empty.", "Unknown user. Use numeric user ID, login, or exact display name.",
     "Resolved user did not include a self href or id.",
     "Cannot resolve assignee by name because user listing is not permitted.",
     "Unknown type",
     "Could not resolve type list from OpenProject. Check permissions for reading types."}

\* The operation ended with the error of a resolver, or with the error of a
\* lookup request
ResolverFailed ==
    /\ pc = "done"
    /\ result.kind = "error"
    /\ \/ result.message.text \in ResolverErrors
       \/ /\ requests # <<>>
          /\ ~Mutating(Len(requests))
          /\ result = RequestError(requests[Len(requests)].method, requests[Len(requests)].path,
                                   requests[Len(requests)].resp)

\* C29: update_work_package sends at most one PATCH, as its last request and
\* after the lookups of every reference asked for (status, priority,
\* assignee, type), whose resolved links the PATCH carries; when a resolver
\* fails, no mutating request is sent.
C29_OnePatchAfterResolution ==
    op = "update_work_package" =>
        /\ \A i \in 1..Len(requests) :
              Mutating(i) =>
                 /\ i = Len(requests)
                 /\ requests[i].method = "PATCH"
                 /\ LET links == requests[i].payload[1].links IN
                    /\ Asked(args.status_name) => links.status # Absent
                    /\ Asked(args.priority_name) => links.priority # Absent
                    /\ Asked(args.assignee_ref) => links.assignee # Absent
                    /\ Asked(args.type_name) => links.type # Absent
        /\ ResolverFailed => \A i \in 1..Len(requests) : ~Mutating(i)

\* Status, priority, assignee and type were asked for and resolved, and one
\* PATCH carrying the four links followed the lookups
C29_Witness ==
    /\ op = "update_work_package" /\ pc = "done"
    /\ Asked(args.status_name) /\ Asked(args.priority_name)
    /\ Asked(args.assignee_ref) /\ Asked(args.type_name)
    /\ Len(requests) >= 5
    /\ requests[Len(requests)].method = "PATCH"
    /\ requests[Len(requests)].payload[1].links.type # Absent
    /\ requests[Len(requests)].payload[1].links.assignee # Absent

\* The priority could not be looked up and the update ended without a PATCH
C29_WitnessResolverFailed ==
    /\ op = "update_work_package" /\ pc = "done"
    /\ Asked(args.priority_name)
    /\ ResolverFailed
    /\ \E i \in 1..Len(requests) : requests[i].path = "/priorities" /\ requests[i].resp.status = 403
    /\ \A i \in 1..Len(requests) : ~Mutating(i)

(***************************************************************************)
(* Claims about the strategies of add_comment                              *)
(***************************************************************************)
\* Request i is the attempt of one of the three strategies
CreatesComment(i) == requests[i].method # "GET"

\* The statuses the strategy of request i expects: 200 for the PATCH with
\* lockVersion, 200 and 201 for the addComment link and the activities POST
ExpectedOf(i) ==
    IF requests[i].method = "PATCH" /\ requests[i].payload[1].lockVersion # Absent
    THEN {200} ELSE {200, 201}

\* The request of a strategy succeeded
StrategySucceeded(i) == CreatesComment(i) /\ requests[i].resp.status \in ExpectedOf(i)

\* C30: once the request of a strategy of add_comment succeeds, the operation
\* returns its answer with no further request, so at most one
\* comment-creating request succeeds; nor does any request follow one that
\* the server answered with 200 or 201.
C30_FirstSuccessReturns ==
    op = "add_comment" =>
        /\ \A i \in 1..Len(requests) :
              /\ StrategySucceeded(i) => i = Len(requests) /\ result = Ok(Decoded(requests[i].resp))
              /\ CreatesComment(i) /\ requests[i].resp.status \in {200, 201} => i = Len(requests)
        /\ Cardinality({i \in 1..Len(requests) : StrategySucceeded(i)}) <= 1

\* The addComment link answered 404, the PATCH with lockVersion succeeded and
\* the activities endpoint was not asked
C30_Witness ==
    /\ op = "add_comment" /\ pc = "done"
    /\ Len(requests) = 3
    /\ requests[2].method = "POST" /\ requests[2].resp.status = 404
    /\ requests[3].method = "PATCH" /\ requests[3].resp.status = 200
    /\ result.kind = "ok"

====
